---------------------------- MODULE Spec2Model ----------------------------
(***************************************************************************)
(* Model of the 2D platformer runtime: the procedural scene generator      *)
(* (src/src/generator.rs) and the per-frame simulation (src/src/scene.rs). *)
(*                                                                         *)
(* Numbers.  The program computes in f32; the model computes in exact      *)
(* integers.  Lengths are world units, sprite sizes are even so that the   *)
(* half sizes the code uses stay integral.  Angles are counted in quarter  *)
(* turns (PI = 2, TAU = 4), so sin and cos are exact on every angle the    *)
(* model forms.  Time is counted in units of 1/20 s.  Fractions of the     *)
(* rules (level scales, multipliers, densities, chances) are counted in    *)
(* halves: a value v stands for v/2.                                       *)
(***************************************************************************)
EXTENDS Integers, Sequences, FiniteSets, TLC

VARIABLES
    rules,      \* GameRules borrowed by the generator and copied into the scene
    assets,     \* Assets: the sprite catalog
    level,      \* level number handed to generate_scene
    disk,       \* authored level file of that level: "missing", "corrupt" or a CustomLevel
    screen_size,\* world dimensions handed to generate_scene
    seed,       \* seed the level RNG was created from
    rng,        \* state of the injected RNG stream
    scene,      \* the Scene under construction or being simulated
    gen,        \* program counter and locals of generate_scene / spawn_collectibles
    first,      \* result of the previous generate_scene call with the same inputs
    obs,        \* what the last step did (inputs of the tick, damage applied, ranges drawn)
    main        \* locals of the main loop: game state, collected count, last transition

vars == <<rules, assets, level, disk, screen_size, seed, rng, scene, gen, first, obs, main>>

-----------------------------------------------------------------------------
(* Arithmetic helpers                                                      *)

Min(a, b) == IF a <= b THEN a ELSE b
Max(a, b) == IF a >= b THEN a ELSE b
Abs(a) == IF a < 0 THEN -a ELSE a

\* u32::MAX, scaled down so that saturation is reachable
U32Max == 12

\* u32::saturating_add
SatAdd(a, b) == IF a + b > U32Max THEN U32Max ELSE a + b

\* f32::round of n/2 (half away from zero), n >= 0 or n < 0
RoundHalf(n) == IF n >= 0 THEN (n + 1) \div 2 ELSE -((-n + 1) \div 2)

\* f32::round of n/4
RoundQuarter(n) == IF n >= 0 THEN (n + 2) \div 4 ELSE -((-n + 2) \div 4)

\* sin and cos of an angle given in quarter turns
Sin4(a) == LET q == a % 4 IN IF q = 1 THEN 1 ELSE IF q = 3 THEN -1 ELSE 0
Cos4(a) == Sin4(a + 1)

RECURSIVE IsqrtFrom(_, _)
IsqrtFrom(n, r) == IF (r + 1) * (r + 1) > n THEN r ELSE IsqrtFrom(n, r + 1)
\* integer part of the square root
Isqrt(n) == IsqrtFrom(n, 0)

\* a sequence given by a function constructor, as a tuple
Tuple(f) == f \o <<>>

Vec2(px, py) == [x |-> px, y |-> py]
Vec2Zero == Vec2(0, 0)

-----------------------------------------------------------------------------
(* Rectangles (macroquad Rect: x, y is the top left corner)                *)

Rect(px, py, pw, ph) == [x |-> px, y |-> py, w |-> pw, h |-> ph]

\* Rect::overlaps: edges that touch count as overlapping
Overlaps(a, b) ==
    /\ a.x <= b.x + b.w
    /\ a.x + a.w >= b.x
    /\ a.y <= b.y + b.h
    /\ a.y + a.h >= b.y

\* side of the square a projectile is drawn and collides with, before scaling
ProjectileSize == 8

entity_rect(entity, scale) ==
    IF entity.kind = "Projectile"
    THEN LET size == ProjectileSize * scale IN
         Rect(entity.position.x - size \div 2, entity.position.y - size \div 2, size, size)
    ELSE LET w == entity.texture.w * scale
             h == entity.texture.h * scale IN
         Rect(entity.position.x - w \div 2, entity.position.y - h \div 2, w, h)

platform_rect(platform, scale) ==
    LET w == platform.texture.w * scale
        h == platform.texture.h * scale IN
    Rect(platform.position.x - w \div 2, platform.position.y - h \div 2, w, h)

is_on_ground(entity, platforms, scale) ==
    LET r0 == entity_rect(entity, scale)
        rect == [r0 EXCEPT !.y = r0.y + 1] IN
    \E i \in 1..Len(platforms) : Overlaps(rect, platform_rect(platforms[i], scale))

\* variant: only the first platform that overlaps gives a snap
ResolveFirst(entity, rect, platforms, scale, i) ==
    LET hits == {k \in i..Len(platforms) :
                    Overlaps(rect, platform_rect(platforms[k], scale))}
        k0 == CHOOSE k \in hits : \A m \in hits : k <= m IN
    IF hits = {} THEN entity
    ELSE [entity EXCEPT !.position.y = platform_rect(platforms[k0], scale).y - rect.h \div 2,
                        !.velocity.y = 0]

RECURSIVE ResolveFrom(_, _, _, _, _)
ResolveFrom(entity, rect, platforms, scale, i) ==
    IF i > Len(platforms) THEN entity
    ELSE LET plat == platform_rect(platforms[i], scale) IN
         IF ~Overlaps(rect, plat)
         THEN ResolveFrom(entity, rect, platforms, scale, i + 1)
         ELSE ResolveFrom(
                [entity EXCEPT !.position.y = plat.y - rect.h \div 2,
                               !.velocity.y = 0],
                [rect EXCEPT !.y = plat.y - rect.h],
                platforms, scale, i + 1)

\* variant: rising entities are resolved too
resolve_rising_too(entity, platforms, scale) ==
    ResolveFrom(entity, entity_rect(entity, scale), platforms, scale, 1)

resolve_platform_collisions(entity, platforms, scale) ==
    IF entity.velocity.y <= 0 THEN entity
    ELSE ResolveFrom(entity, entity_rect(entity, scale), platforms, scale, 1)

-----------------------------------------------------------------------------
(* Particles.  A particle keeps its origin, its direction angle            *)
(* (angle_num / angle_den quarter turns), its speed and the time it has    *)
(* flown: its position is origin + direction * speed * age.                *)

\* variant: the fan is spread over count - 1 steps and so ends on angle_end
emit_particles_closed(out, origin, count, angle_start, angle_end, speed, lifetime) ==
    IF count = 0 THEN out
    ELSE LET total == Max(count, 1)
             steps == Max(total - 1, 1)
             delta_num == IF total <= 1 THEN 0 ELSE angle_end - angle_start IN
         out \o [i \in 1..total |->
                   [origin |-> origin,
                    angle_num |-> angle_start * steps + delta_num * (i - 1),
                    angle_den |-> steps,
                    speed |-> speed,
                    age |-> 0,
                    lifetime |-> lifetime]]

emit_particles(out, origin, count, angle_start, angle_end, speed, lifetime) ==
    IF count = 0 THEN out
    ELSE LET total == Max(count, 1)
             delta_num == IF total <= 1 THEN 0 ELSE angle_end - angle_start IN
         out \o [i \in 1..total |->
                   [origin |-> origin,
                    angle_num |-> angle_start * total + delta_num * (i - 1),
                    angle_den |-> total,
                    speed |-> speed,
                    age |-> 0,
                    lifetime |-> lifetime]]

\* speeds in world units per second, lifetimes in units of 1/20 s
JumpParticleSpeed == 80
JumpParticleLifetime == 7
HitParticleSpeed == 90
HitParticleLifetime == 10
PickupParticleSpeed == 60
PickupParticleLifetime == 8

-----------------------------------------------------------------------------
(* Scene::new                                                              *)

None == [some |-> FALSE]
Some(val) == [some |-> TRUE, v |-> val]

\* str::to_lowercase on the mode strings the rules can hold
to_lowercase(str) ==
    CASE str = "Circle" -> "circle"
      [] str = "Chase" -> "chase"
      [] str = "Custom" -> "custom"
      [] str = "Collect_Fest" -> "collect_fest"
      [] str = "BOSS" -> "boss"
      [] OTHER -> str

\* variant: the particles flag of the rules is ignored and particles are always on
SceneNewParticlesOn(r, effective_enemy_speed, effective_enemy_contact_damage, input, world_width, world_height) ==
    LET clamped_max == Max(r.player_max_health, 1)
        clamped_start == Min(Max(r.player_start_health, 1), clamped_max) IN
    [background |-> None,
     entities |-> <<>>,
     platforms |-> <<>>,
     score |-> 0,
     move_speed |-> r.player_move_speed,
     jump_strength |-> r.player_jump_strength,
     gravity |-> r.gravity,
     enemy_speed |-> effective_enemy_speed,
     enemy_gravity_scale |-> r.enemy_gravity_scale,
     sprite_scale |-> r.sprite_scale,
     player_health |-> clamped_start,
     player_max_health |-> clamped_max,
     enemy_contact_damage |-> effective_enemy_contact_damage,
     hit_invincibility_duration |-> r.hit_invincibility_duration,
     hit_timer |-> 0,
     player_dead |-> FALSE,
     input |-> input,
     world_width |-> world_width,
     world_height |-> world_height,
     time |-> 0,
     fall_respawn_offset |-> r.player_fall_respawn_offset,
     moving_platform_enabled |-> r.moving_platform_enabled,
     moving_platform_speed |-> r.moving_platform_speed,
     moving_platform_amplitude |-> r.moving_platform_amplitude,
     collectible_bob_enabled |-> r.collectible_bob_enabled,
     collectible_bob_amplitude |-> r.collectible_bob_amplitude,
     collectible_bob_speed |-> r.collectible_bob_speed,
     enemy_jump_enabled |-> r.enemy_jump_enabled,
     enemy_jump_interval |-> r.enemy_jump_interval,
     enemy_jump_strength |-> r.enemy_jump_strength,
     enemy_jump_timer |-> 0,
     enemy_shoot_enabled |-> r.enemy_shoot_enabled,
     enemy_shoot_interval |-> r.enemy_shoot_interval,
     enemy_shoot_timer |-> 0,
     enemy_shoot_range |-> r.enemy_shoot_range,
     projectile_speed |-> r.projectile_speed,
     projectile_damage |-> r.projectile_damage,
     particles_enabled |-> TRUE,
     jump_particle_count |-> r.jump_particle_count,
     hit_particle_count |-> r.hit_particle_count,
     pickup_particle_count |-> r.pickup_particle_count,
     particles |-> <<>>,
     enemy_behavior_mode |-> r.enemy_behavior_mode,
     enemy_chase_range |-> r.enemy_chase_range,
     enemy_circle_radius |-> r.enemy_circle_radius,
     enemy_circle_speed |-> r.enemy_circle_speed]

SceneNew(r, effective_enemy_speed, effective_enemy_contact_damage, input, world_width, world_height) ==
    LET clamped_max == Max(r.player_max_health, 1)
        clamped_start == Min(Max(r.player_start_health, 1), clamped_max) IN
    [background |-> None,
     entities |-> <<>>,
     platforms |-> <<>>,
     score |-> 0,
     move_speed |-> r.player_move_speed,
     jump_strength |-> r.player_jump_strength,
     gravity |-> r.gravity,
     enemy_speed |-> effective_enemy_speed,
     enemy_gravity_scale |-> r.enemy_gravity_scale,
     sprite_scale |-> r.sprite_scale,
     player_health |-> clamped_start,
     player_max_health |-> clamped_max,
     enemy_contact_damage |-> effective_enemy_contact_damage,
     hit_invincibility_duration |-> r.hit_invincibility_duration,
     hit_timer |-> 0,
     player_dead |-> FALSE,
     input |-> input,
     world_width |-> world_width,
     world_height |-> world_height,
     time |-> 0,
     fall_respawn_offset |-> r.player_fall_respawn_offset,
     moving_platform_enabled |-> r.moving_platform_enabled,
     moving_platform_speed |-> r.moving_platform_speed,
     moving_platform_amplitude |-> r.moving_platform_amplitude,
     collectible_bob_enabled |-> r.collectible_bob_enabled,
     collectible_bob_amplitude |-> r.collectible_bob_amplitude,
     collectible_bob_speed |-> r.collectible_bob_speed,
     enemy_jump_enabled |-> r.enemy_jump_enabled,
     enemy_jump_interval |-> r.enemy_jump_interval,
     enemy_jump_strength |-> r.enemy_jump_strength,
     enemy_jump_timer |-> 0,
     enemy_shoot_enabled |-> r.enemy_shoot_enabled,
     enemy_shoot_interval |-> r.enemy_shoot_interval,
     enemy_shoot_timer |-> 0,
     enemy_shoot_range |-> r.enemy_shoot_range,
     projectile_speed |-> r.projectile_speed,
     projectile_damage |-> r.projectile_damage,
     particles_enabled |-> r.particles_enabled,
     jump_particle_count |-> r.jump_particle_count,
     hit_particle_count |-> r.hit_particle_count,
     pickup_particle_count |-> r.pickup_particle_count,
     particles |-> <<>>,
     enemy_behavior_mode |-> r.enemy_behavior_mode,
     enemy_chase_range |-> r.enemy_chase_range,
     enemy_circle_radius |-> r.enemy_circle_radius,
     enemy_circle_speed |-> r.enemy_circle_speed]

-----------------------------------------------------------------------------
(* Scene::update                                                           *)

\* a cooldown timer counts down by dt and stops at 0
DecTimer(timer, dt) == IF timer > 0 THEN Max(timer - dt, 0) ELSE timer

\* variant: particles age but are never pruned
UpdateParticlesUnpruned(s, dt) ==
    IF s.particles_enabled
    THEN [i \in 1..Len(s.particles) |->
             [s.particles[i] EXCEPT !.age = @ + dt, !.lifetime = @ - dt]]
    ELSE <<>>

UpdateParticles(s, dt) ==
    IF s.particles_enabled
    THEN SelectSeq([i \in 1..Len(s.particles) |->
                       [s.particles[i] EXCEPT !.age = @ + dt, !.lifetime = @ - dt]],
                   LAMBDA p : p.lifetime > 0)
    ELSE <<>>

\* variant: every platform moves when moving platforms are enabled
MoveAllPlatforms(s, time) ==
    IF s.moving_platform_enabled
    THEN LET t == time * s.moving_platform_speed IN
         Tuple([i \in 1..Len(s.platforms) |->
            LET platform == s.platforms[i]
                offset == Sin4(t + platform.phase) * s.moving_platform_amplitude IN
            IF platform.vertical
            THEN [platform EXCEPT !.position.y = platform.base_position.y + offset]
            ELSE [platform EXCEPT !.position.x = platform.base_position.x + offset]])
    ELSE s.platforms

MovePlatforms(s, time) ==
    IF s.moving_platform_enabled
    THEN LET t == time * s.moving_platform_speed IN
         Tuple([i \in 1..Len(s.platforms) |->
            LET platform == s.platforms[i]
                offset == Sin4(t + platform.phase) * s.moving_platform_amplitude IN
            IF ~platform.moving THEN platform
            ELSE IF platform.vertical
                 THEN [platform EXCEPT !.position.y = platform.base_position.y + offset]
                 ELSE [platform EXCEPT !.position.x = platform.base_position.x + offset]])
    ELSE s.platforms

\* position of the first Player entity, if any
FindPlayer(entities) ==
    LET idx == {i \in 1..Len(entities) : entities[i].kind = "Player"} IN
    IF idx = {} THEN None
    ELSE Some(entities[CHOOSE i \in idx : \A j \in idx : i <= j])

is_key_down(kb, key) == key \in kb.down
is_key_pressed(kb, key) == key \in kb.pressed

\* horizontal direction read from the held keys
PlayerDir(input, kb) ==
    LET left_down == is_key_down(kb, input.move_left_primary)
                     \/ (input.move_left_alt.some /\ is_key_down(kb, input.move_left_alt.v))
        right_down == is_key_down(kb, input.move_right_primary)
                      \/ (input.move_right_alt.some /\ is_key_down(kb, input.move_right_alt.v)) IN
    (IF left_down THEN -1 ELSE 0) + (IF right_down THEN 1 ELSE 0)

JumpPressed(input, kb) ==
    is_key_pressed(kb, input.jump_primary)
    \/ (input.jump_alt.some /\ is_key_pressed(kb, input.jump_alt.v))

\* velocity integration followed by landing resolution
MoveAndResolve(entity, platforms, scale, dt) ==
    resolve_platform_collisions(
        [entity EXCEPT !.position = Vec2(entity.position.x + entity.velocity.x * dt,
                                         entity.position.y + entity.velocity.y * dt)],
        platforms, scale)

\* half of the entity's scaled width and height
HalfW(entity, scale) == (entity.texture.w * scale) \div 2
HalfH(entity, scale) == (entity.texture.h * scale) \div 2

\* variant: the held keys add to velocity.x
SteerAdds(entity, s, kb) ==
    [entity EXCEPT !.velocity.x = @ + PlayerDir(s.input, kb) * s.move_speed]

\* the held keys set velocity.x
Steer(entity, s, kb) == [entity EXCEPT !.velocity.x = PlayerDir(s.input, kb) * s.move_speed]

\* variant: a jump starts in the air too
PlayerJumpsInAir(entity, s, kb) == JumpPressed(s.input, kb)

\* a jump starts when the jump key is pressed on the ground
PlayerJumps(entity, s, kb) ==
    is_on_ground(entity, s.platforms, s.sprite_scale) /\ JumpPressed(s.input, kb)

\* the fan of particles at the player's feet when a jump starts
JumpFan(entity, s) ==
    IF s.particles_enabled
    THEN emit_particles(<<>>,
                        Vec2(entity.position.x, entity.position.y + HalfH(entity, s.sprite_scale)),
                        s.jump_particle_count, 2, 4, JumpParticleSpeed, JumpParticleLifetime)
    ELSE <<>>

\* jump impulse, then gravity
Accelerate(entity, jumps, s, dt) ==
    [entity EXCEPT !.velocity.y = (IF jumps THEN -s.jump_strength ELSE @) + s.gravity * dt]

\* variant: nothing stops the player at the left edge
ClampLeftOff(entity, half_w) == entity

ClampLeft(entity, half_w) ==
    IF entity.position.x - half_w < 0 THEN [entity EXCEPT !.position.x = half_w] ELSE entity

ClampRight(entity, half_w, world_width) ==
    IF entity.position.x + half_w > world_width
    THEN [entity EXCEPT !.position.x = world_width - half_w] ELSE entity

\* variant: a player that fell below the world keeps falling
FallRespawnOff(entity, s) == entity

\* a player that fell below the world re-enters at the top centre
FallRespawn(entity, s) ==
    IF entity.position.y - HalfH(entity, s.sprite_scale) > s.world_height + s.fall_respawn_offset
    THEN [entity EXCEPT !.position = Vec2(s.world_width \div 2, 0), !.velocity = Vec2Zero]
    ELSE entity

\* the Player branch once velocity.x is set and the jump is decided
PlayerStep(entity, jumps, s, dt) ==
    [entity |-> FallRespawn(
                    ClampRight(
                        ClampLeft(
                            MoveAndResolve(Accelerate(entity, jumps, s, dt),
                                           s.platforms, s.sprite_scale, dt),
                            HalfW(entity, s.sprite_scale)),
                        HalfW(entity, s.sprite_scale), s.world_width),
                    s),
     particles |-> IF jumps THEN JumpFan(entity, s) ELSE <<>>,
     jumped |-> jumps, enemy_jumped |-> FALSE, shots |-> <<>>]

PlayerSteered(entity, s, dt, kb) == PlayerStep(entity, PlayerJumps(entity, s, kb), s, dt)

UpdatePlayer(entity, s, dt, kb) == PlayerSteered(Steer(entity, s, kb), s, dt, kb)

\* integer quotient rounded toward zero
QuoT(a, b) == IF a >= 0 THEN a \div b ELSE -((-a) \div b)

EnemyMode(s) == to_lowercase(s.enemy_behavior_mode)

\* gravity on an enemy; the gravity scale is counted in halves
EnemyFall(entity, s, dt) ==
    [entity EXCEPT !.velocity.y = @ + (s.gravity * s.enemy_gravity_scale * dt) \div 2]

\* patrol keeps the velocity, chase turns toward the player, circle sets the position
EnemySteer(entity, s, player) ==
    LET dx == IF player.some THEN player.v.position.x - entity.position.x ELSE 0
        angle == s.time * s.enemy_circle_speed + entity.phase IN
    CASE EnemyMode(s) = "chase" ->
             IF player.some /\ Abs(dx) <= s.enemy_chase_range
             THEN [entity EXCEPT !.velocity.x = (IF dx > 0 THEN 1 ELSE -1) * s.enemy_speed]
             ELSE entity
      [] EnemyMode(s) = "circle" ->
             [entity EXCEPT !.position =
                 Vec2(entity.base_position.x + Cos4(angle) * s.enemy_circle_radius,
                      entity.base_position.y + Sin4(angle) * s.enemy_circle_radius)]
      [] OTHER -> entity

EnemyMove(entity, s, dt) ==
    IF EnemyMode(s) # "circle"
    THEN [entity EXCEPT !.position = Vec2(entity.position.x + entity.velocity.x * dt,
                                          entity.position.y + entity.velocity.y * dt)]
    ELSE entity

\* variant: an enemy past a world edge stops
EnemyTurnStops(entity, s) ==
    IF /\ \/ entity.position.x - HalfW(entity, s.sprite_scale) < 0
          \/ entity.position.x + HalfW(entity, s.sprite_scale) > s.world_width
       /\ EnemyMode(s) # "circle"
    THEN [entity EXCEPT !.velocity.x = 0] ELSE entity

\* an enemy past a world edge turns round
EnemyTurn(entity, s) ==
    IF /\ \/ entity.position.x - HalfW(entity, s.sprite_scale) < 0
          \/ entity.position.x + HalfW(entity, s.sprite_scale) > s.world_width
       /\ EnemyMode(s) # "circle"
    THEN [entity EXCEPT !.velocity.x = -entity.velocity.x] ELSE entity

\* variant: an enemy jumps whatever the shared timer reads
EnemyJumpsUnthrottled(entity, s) ==
    /\ s.enemy_jump_enabled
    /\ entity.jumping
    /\ s.enemy_jump_interval > 0
    /\ is_on_ground(entity, s.platforms, s.sprite_scale)

EnemyJumps(entity, s) ==
    /\ s.enemy_jump_enabled
    /\ entity.jumping
    /\ s.enemy_jump_interval > 0
    /\ s.enemy_jump_timer <= 0
    /\ is_on_ground(entity, s.platforms, s.sprite_scale)

\* variant: an enemy fires whatever the shared timer reads
EnemyShotsUnthrottled(entity, s, player) ==
    LET tx == IF player.some THEN player.v.position.x - entity.position.x ELSE 0
        ty == IF player.some THEN player.v.position.y - entity.position.y ELSE 0
        dist2 == tx * tx + ty * ty
        shoots == /\ s.enemy_shoot_enabled
                  /\ s.enemy_shoot_interval > 0
                  /\ player.some
                  /\ dist2 > 0
                  /\ s.enemy_shoot_range >= 0
                  /\ dist2 <= s.enemy_shoot_range * s.enemy_shoot_range
        dist == Max(Isqrt(dist2), 1) IN
    IF shoots
    THEN <<[kind |-> "Projectile",
            texture |-> entity.texture,
            position |-> entity.position,
            velocity |-> Vec2(QuoT(tx * s.projectile_speed, dist),
                              QuoT(ty * s.projectile_speed, dist)),
            value |-> 0,
            health_value |-> 0,
            base_position |-> entity.position,
            phase |-> 0,
            jumping |-> FALSE]>>
    ELSE <<>>

\* the projectile an enemy fires at the player's position of the start of the tick
EnemyShots(entity, s, player) ==
    LET tx == IF player.some THEN player.v.position.x - entity.position.x ELSE 0
        ty == IF player.some THEN player.v.position.y - entity.position.y ELSE 0
        dist2 == tx * tx + ty * ty
        shoots == /\ s.enemy_shoot_enabled
                  /\ s.enemy_shoot_interval > 0
                  /\ s.enemy_shoot_timer <= 0
                  /\ player.some
                  /\ dist2 > 0
                  /\ s.enemy_shoot_range >= 0
                  /\ dist2 <= s.enemy_shoot_range * s.enemy_shoot_range
        dist == Max(Isqrt(dist2), 1) IN
    IF shoots
    THEN <<[kind |-> "Projectile",
            texture |-> entity.texture,
            position |-> entity.position,
            velocity |-> Vec2(QuoT(tx * s.projectile_speed, dist),
                              QuoT(ty * s.projectile_speed, dist)),
            value |-> 0,
            health_value |-> 0,
            base_position |-> entity.position,
            phase |-> 0,
            jumping |-> FALSE]>>
    ELSE <<>>

\* the Enemy branch after the move: jump and shot
EnemyStep(entity, jumps, s, player) ==
    [entity |-> IF jumps THEN [entity EXCEPT !.velocity.y = -s.enemy_jump_strength] ELSE entity,
     particles |-> <<>>, jumped |-> FALSE, enemy_jumped |-> jumps,
     shots |-> EnemyShots(entity, s, player)]

EnemyMoved(entity, s, player) == EnemyStep(entity, EnemyJumps(entity, s), s, player)

UpdateEnemy(entity, s, player, dt) ==
    EnemyMoved(
        EnemyTurn(
            resolve_platform_collisions(
                EnemyMove(EnemySteer(EnemyFall(entity, s, dt), s, player), s, dt),
                s.platforms, s.sprite_scale),
            s),
        s, player)

UpdateCollectible(entity, s) ==
    LET angle == s.time * s.collectible_bob_speed + entity.phase
        offset == Sin4(angle) * s.collectible_bob_amplitude IN
    [entity |-> IF s.collectible_bob_enabled
                THEN [entity EXCEPT !.position.y = entity.base_position.y + offset]
                ELSE entity,
     particles |-> <<>>, jumped |-> FALSE, enemy_jumped |-> FALSE, shots |-> <<>>]

\* variant: a projectile falls
UpdateProjectileFalling(entity, dt) ==
    [entity |-> [entity EXCEPT !.position = Vec2(entity.position.x + entity.velocity.x * dt,
                                                 entity.position.y + entity.velocity.y * dt),
                               !.velocity.y = @ + dt],
     particles |-> <<>>, jumped |-> FALSE, enemy_jumped |-> FALSE, shots |-> <<>>]

UpdateProjectile(entity, dt) ==
    [entity |-> [entity EXCEPT !.position = Vec2(entity.position.x + entity.velocity.x * dt,
                                                 entity.position.y + entity.velocity.y * dt)],
     particles |-> <<>>, jumped |-> FALSE, enemy_jumped |-> FALSE, shots |-> <<>>]

\* one iteration of the per-entity loop
UpdateEntity(entity, s, player, dt, kb) ==
    CASE entity.kind = "Player" -> UpdatePlayer(entity, s, dt, kb)
      [] entity.kind = "Enemy" -> UpdateEnemy(entity, s, player, dt)
      [] entity.kind = "Collectible" -> UpdateCollectible(entity, s)
      [] OTHER -> UpdateProjectile(entity, dt)

RECURSIVE Flatten(_)
\* concatenation of a sequence of sequences
Flatten(ss) == IF ss = <<>> THEN <<>> ELSE Head(ss) \o Flatten(Tail(ss))

\* distance past the world edge beyond which a projectile is culled
CullMargin == 32

InCullBounds(e, world_w, world_h) ==
    IF e.kind = "Projectile"
    THEN /\ e.position.x >= -CullMargin
         /\ e.position.x <= world_w + CullMargin
         /\ e.position.y >= -CullMargin
         /\ e.position.y <= world_h + CullMargin
    ELSE TRUE

\* the scan for hazards stops at the first enemy or projectile that overlaps the player
HitScan(entities, rect, scale) ==
    LET idx == {i \in 1..Len(entities) :
                   /\ entities[i].kind \in {"Enemy", "Projectile"}
                   /\ Overlaps(entity_rect(entities[i], scale), rect)} IN
    IF idx = {} THEN [hit_enemy |-> FALSE, hit_projectile |-> FALSE]
    ELSE LET k == entities[CHOOSE i \in idx : \A j \in idx : i <= j].kind IN
         [hit_enemy |-> k = "Enemy", hit_projectile |-> k = "Projectile"]

\* variant: damage is taken whatever the invincibility timer holds
CanTakeDamageAlways(hit_timer) == TRUE

\* damage is taken only while the invincibility timer is not running
CanTakeDamage(hit_timer) == hit_timer <= 0

DamageOf(s, hit) ==
    LET d1 == IF hit.hit_enemy THEN SatAdd(0, Max(s.enemy_contact_damage, 1)) ELSE 0
        d2 == IF hit.hit_projectile THEN SatAdd(d1, Max(s.projectile_damage, 1)) ELSE d1 IN
    Max(d2, 1)

ApplyDamage(s, damage) ==
    IF damage >= s.player_health
    THEN [s EXCEPT !.player_health = 0, !.player_dead = TRUE]
    ELSE [s EXCEPT !.player_health = @ - damage]

RECURSIVE SatSum(_, _)
\* saturating sum of field f over a sequence of entities
SatSum(es, f) == IF es = <<>> THEN 0 ELSE SatAdd(es[1][f], SatSum(Tail(es), f))

\* variant: healing without the cap at player_max_health
HealedHealthUncapped(player_health, collected_health, player_max_health) ==
    IF collected_health > 0 /\ player_health > 0
    THEN SatAdd(player_health, collected_health)
    ELSE player_health

\* variant: pickups heal a player whose health is 0
HealedHealthRevives(player_health, collected_health, player_max_health) ==
    IF collected_health > 0
    THEN Min(SatAdd(player_health, collected_health), player_max_health)
    ELSE player_health

HealedHealth(player_health, collected_health, player_max_health) ==
    IF collected_health > 0 /\ player_health > 0
    THEN Min(SatAdd(player_health, collected_health), player_max_health)
    ELSE player_health

RECURSIVE EmitBursts(_, _, _)
EmitBursts(out, bursts, count) ==
    IF bursts = <<>> THEN out
    ELSE EmitBursts(emit_particles(out, Head(bursts), count, 0, 4,
                                   PickupParticleSpeed, PickupParticleLifetime),
                    Tail(bursts), count)

\* timers, particles and moving platforms, before the entity loop
Prelude(s0, dt) ==
    [s0 EXCEPT !.time = @ + dt,
               !.particles = UpdateParticles(s0, dt),
               !.enemy_jump_timer = DecTimer(@, dt),
               !.enemy_shoot_timer = DecTimer(@, dt),
               !.platforms = MovePlatforms(s0, s0.time + dt),
               !.hit_timer = DecTimer(@, dt)]

\* the per-entity loop, with the player position taken before it
EntityResults(s1, player, dt, kb) ==
    Tuple([i \in 1..Len(s1.entities) |-> UpdateEntity(s1.entities[i], s1, player, dt, kb)])

\* timers restarted, new projectiles appended, projectiles out of bounds culled
AfterEntities(s1, res) ==
    LET new_projectiles == Flatten(Tuple([i \in 1..Len(res) |-> res[i].shots]))
        moved == [i \in 1..Len(res) |-> res[i].entity] \o new_projectiles IN
    [scene |-> [s1 EXCEPT
                   !.enemy_jump_timer = IF \E i \in 1..Len(res) : res[i].enemy_jumped
                                        THEN s1.enemy_jump_interval ELSE @,
                   !.enemy_shoot_timer = IF new_projectiles # <<>>
                                         THEN s1.enemy_shoot_interval ELSE @,
                   !.entities = SelectSeq(moved, LAMBDA e :
                                    InCullBounds(e, s1.world_width, s1.world_height))],
     particles |-> Flatten(Tuple([i \in 1..Len(res) |-> res[i].particles])),
     spawned |-> Len(new_projectiles),
     enemy_jumped |-> {i \in 1..Len(res) : res[i].enemy_jumped},
     jump_sound |-> \E i \in 1..Len(res) : res[i].jumped]

MoveEntities(s1, dt, kb) ==
    AfterEntities(s1, EntityResults(s1, FindPlayer(s1.entities), dt, kb))

\* the box of the player after the entity loop
PlayerRect(player, scale) ==
    IF player.some THEN entity_rect(player.v, scale) ELSE Rect(0, 0, 0, 0)

\* variant: a projectile is removed only when the player can be hurt
RemoveWhenVulnerable(s, alive, rect) ==
    IF alive /\ s.hit_timer <= 0
    THEN [s EXCEPT !.entities =
             SelectSeq(@, LAMBDA e : ~(/\ e.kind = "Projectile"
                                       /\ Overlaps(entity_rect(e, s.sprite_scale), rect)))]
    ELSE s

\* variant: whatever touches the player is removed, enemies included
RemoveTouching(s, alive, rect) ==
    IF alive
    THEN [s EXCEPT !.entities =
             SelectSeq(@, LAMBDA e : ~(/\ e.kind # "Player"
                                       /\ Overlaps(entity_rect(e, s.sprite_scale), rect)))]
    ELSE s

\* projectiles that overlap the player are removed, even while invincible
RemoveStruck(s, alive, rect) ==
    IF alive
    THEN [s EXCEPT !.entities =
             SelectSeq(@, LAMBDA e : ~(/\ e.kind = "Projectile"
                                       /\ Overlaps(entity_rect(e, s.sprite_scale), rect)))]
    ELSE s

\* damage of the tick, given what the hazard scan found
DamageWith(s, alive, rect, particles, hit) ==
    LET damaged == hit.hit_enemy \/ hit.hit_projectile
        damage == IF damaged THEN DamageOf(s, hit) ELSE 0 IN
    [scene |-> RemoveStruck(
                   IF damaged
                   THEN ApplyDamage([s EXCEPT !.hit_timer = s.hit_invincibility_duration], damage)
                   ELSE s,
                   alive, rect),
     damaged |-> damaged,
     damage |-> damage,
     particles |-> IF damaged /\ s.particles_enabled
                   THEN emit_particles(particles,
                                       Vec2(rect.x + rect.w \div 2, rect.y + rect.h \div 2),
                                       s.hit_particle_count, 0, 4,
                                       HitParticleSpeed, HitParticleLifetime)
                   ELSE particles]

\* damage from enemies and projectiles that touch a living player
TakeDamage(s, player, rect, particles) ==
    IF ~player.some
    THEN [scene |-> s, damaged |-> FALSE, damage |-> 0, particles |-> particles]
    ELSE DamageWith(s, s.player_health > 0, rect, particles,
                    IF s.player_health > 0 /\ CanTakeDamage(s.hit_timer)
                    THEN HitScan(s.entities, rect, s.sprite_scale)
                    ELSE [hit_enemy |-> FALSE, hit_projectile |-> FALSE])

\* new particles are appended to the scene's
AddParticles(s, new_particles) ==
    IF s.particles_enabled /\ new_particles # <<>>
    THEN [s EXCEPT !.particles = @ \o new_particles]
    ELSE s

\* variant: a player without health collects nothing
CollectWithAlive(s, rect, particles, collected) ==
    IF s.player_health = 0
    THEN [scene |-> AddParticles(s, particles), collected_value |-> 0, collected_health |-> 0]
    ELSE [scene |-> AddParticles(
                   [s EXCEPT !.entities =
                                SelectSeq(@, LAMBDA e :
                                    ~(/\ e.kind = "Collectible"
                                      /\ Overlaps(entity_rect(e, s.sprite_scale), rect))),
                             !.score = SatAdd(@, SatSum(collected, "value")),
                             !.player_health = HealedHealth(@, SatSum(collected, "health_value"),
                                                            s.player_max_health)],
                   IF s.particles_enabled
                   THEN EmitBursts(particles,
                                   Tuple([i \in 1..Len(collected) |-> collected[i].position]),
                                   s.pickup_particle_count)
                   ELSE particles),
          collected_value |-> SatSum(collected, "value"),
          collected_health |-> SatSum(collected, "health_value")]

\* the collectibles touched are removed, scored and healed from
CollectWith(s, rect, particles, collected) ==
    [scene |-> AddParticles(
                   [s EXCEPT !.entities =
                                SelectSeq(@, LAMBDA e :
                                    ~(/\ e.kind = "Collectible"
                                      /\ Overlaps(entity_rect(e, s.sprite_scale), rect))),
                             !.score = SatAdd(@, SatSum(collected, "value")),
                             !.player_health = HealedHealth(@, SatSum(collected, "health_value"),
                                                            s.player_max_health)],
                   IF s.particles_enabled
                   THEN EmitBursts(particles,
                                   Tuple([i \in 1..Len(collected) |-> collected[i].position]),
                                   s.pickup_particle_count)
                   ELSE particles),
     collected_value |-> SatSum(collected, "value"),
     collected_health |-> SatSum(collected, "health_value")]

\* variant: only the first collectible touched is scored and healed from
CollectFirst(s, player, rect, particles) ==
    IF ~player.some
    THEN [scene |-> AddParticles(s, particles), collected_value |-> 0, collected_health |-> 0]
    ELSE LET touched == SelectSeq(s.entities, LAMBDA e :
                            /\ e.kind = "Collectible"
                            /\ Overlaps(entity_rect(e, s.sprite_scale), rect)) IN
         CollectWith(s, rect, particles,
                     IF touched = <<>> THEN touched ELSE <<touched[1]>>)

Collect(s, player, rect, particles) ==
    IF ~player.some
    THEN [scene |-> AddParticles(s, particles), collected_value |-> 0, collected_health |-> 0]
    ELSE CollectWith(s, rect, particles,
                     SelectSeq(s.entities, LAMBDA e :
                         /\ e.kind = "Collectible"
                         /\ Overlaps(entity_rect(e, s.sprite_scale), rect)))

\* the player's box overlaps an entity of the kind
OverlapsKind(s, player, rect, kind) ==
    /\ player.some
    /\ \E i \in 1..Len(s.entities) :
          /\ s.entities[i].kind = kind
          /\ Overlaps(entity_rect(s.entities[i], s.sprite_scale), rect)

\* the scene after the tick and what the tick did
Report(s2, player, rect, hurt, got, spawned, jumped, sound) ==
    [scene |-> got.scene,
     damage |-> hurt.damage,
     damaged |-> hurt.damaged,
     overlap_enemy |-> OverlapsKind(s2, player, rect, "Enemy"),
     overlap_projectile |-> OverlapsKind(s2, player, rect, "Projectile"),
     collected_health |-> got.collected_health,
     collected_value |-> got.collected_value,
     spawned |-> spawned,
     enemy_jumped |-> jumped,
     jump_sound |-> sound]

Collected(s2, player, rect, hurt, spawned, jumped, sound) ==
    Report(s2, player, rect, hurt, Collect(hurt.scene, player, rect, hurt.particles),
           spawned, jumped, sound)

Damaged(s2, player, rect, particles, spawned, jumped, sound) ==
    Collected(s2, player, rect, TakeDamage(s2, player, rect, particles),
              spawned, jumped, sound)

AfterMove(s2, player, particles, spawned, jumped, sound) ==
    Damaged(s2, player, PlayerRect(player, s2.sprite_scale), particles,
            spawned, jumped, sound)

Moved(m) ==
    AfterMove(m.scene, FindPlayer(m.scene.entities), m.particles, m.spawned,
              m.enemy_jumped, m.jump_sound)

\* Scene::update(dt) with the keyboard state kb; returns the scene and what the tick did
update(s0, dt, kb) == Moved(MoveEntities(Prelude(s0, dt), dt, kb))

-----------------------------------------------------------------------------
(* The injected RNG.  The stream is a deterministic function of the seed;  *)
(* a draw advances the state and maps the word it produced into the range. *)

RngNext(r) == (r * 75 + 74) % 65537
Word(r) == r \div 16

\* StdRng::seed_from_u64(seed ^ 0x9E3779B97F4A7C15)
SeedRng(sd) == (sd * 257 + 40503) % 65537

\* variant: a draw that also depends on how many calls came before
GenRangeShared(r, lo, hi) ==
    [v |-> lo + ((Word(RngNext(r)) + gen.call) % (hi - lo + 1)), rng |-> RngNext(r)]

\* rng.gen_range(lo..=hi), lo <= hi
GenRange(r, lo, hi) == [v |-> lo + (Word(RngNext(r)) % (hi - lo + 1)), rng |-> RngNext(r)]

\* rng.gen::<f32>() < chance, chance counted in halves
GenChance(r, chance) == [v |-> (Word(RngNext(r)) % 4) < 2 * chance, rng |-> RngNext(r)]

\* rng.gen_bool(0.5)
GenBool(r) == [v |-> Word(RngNext(r)) % 2 = 0, rng |-> RngNext(r)]

\* rng.gen_range(0.0..TAU), in quarter turns
GenPhase(r) == GenRange(r, 0, 3)

choose_random(items, r) ==
    IF items = <<>> THEN [v |-> None, rng |-> r]
    ELSE LET d == GenRange(r, 0, Len(items) - 1) IN
         [v |-> Some(items[d.v + 1]), rng |-> d.rng]

-----------------------------------------------------------------------------
(* Assets                                                                  *)

\* variant: the catalog is not filtered by kind
sprites_of_any_kind(a, kind) == a.sprites

sprites_of_kind(a, kind) == SelectSeq(a.sprites, LAMBDA sp : sp.kind = kind)

eq_ignore_ascii_case(a, b) == to_lowercase(a) = to_lowercase(b)

sprite_by_kind_and_name(a, kind, name) ==
    LET hits == SelectSeq(a.sprites, LAMBDA sp : sp.kind = kind /\ eq_ignore_ascii_case(sp.name, name)) IN
    IF hits = <<>> THEN None ELSE Some(hits[1])

\* a named sprite, or else the first sprite of the kind
SpriteOrFirst(a, kind, name) ==
    LET named == sprite_by_kind_and_name(a, kind, name)
        all == sprites_of_kind(a, kind) IN
    IF named.some THEN named
    ELSE IF all = <<>> THEN None ELSE Some(all[1])

Texture(sp) == [name |-> sp.name, w |-> sp.w, h |-> sp.h]

-----------------------------------------------------------------------------
(* build_input_config                                                      *)

parse_key(name) ==
    CASE name \in {"A", "a"} -> Some("A")
      [] name \in {"D", "d"} -> Some("D")
      [] name \in {"W", "w"} -> Some("W")
      [] name \in {"J", "j"} -> Some("J")
      [] name \in {"L", "l"} -> Some("L")
      [] name \in {"Left", "LEFT"} -> Some("Left")
      [] name \in {"Right", "RIGHT"} -> Some("Right")
      [] name \in {"Up", "UP"} -> Some("Up")
      [] name \in {"Space", "SPACE", "Spacebar"} -> Some("Space")
      [] OTHER -> None

parse_optional_key(name) == IF name = "" THEN None ELSE parse_key(name)

UnwrapOr(opt, default) == IF opt.some THEN opt.v ELSE default

build_input_config(r) ==
    LET scheme == to_lowercase(r.control_scheme) IN
    CASE scheme = "wasd" ->
           [move_left_primary |-> "A", move_left_alt |-> None,
            move_right_primary |-> "D", move_right_alt |-> None,
            jump_primary |-> "Space", jump_alt |-> Some("W")]
      [] scheme = "arrows" ->
           [move_left_primary |-> "Left", move_left_alt |-> None,
            move_right_primary |-> "Right", move_right_alt |-> None,
            jump_primary |-> "Up", jump_alt |-> None]
      [] scheme = "custom" ->
           [move_left_primary |-> UnwrapOr(parse_key(r.key_left_primary), "A"),
            move_left_alt |-> parse_optional_key(r.key_left_alt),
            move_right_primary |-> UnwrapOr(parse_key(r.key_right_primary), "D"),
            move_right_alt |-> parse_optional_key(r.key_right_alt),
            jump_primary |-> UnwrapOr(parse_key(r.key_jump_primary), "Space"),
            jump_alt |-> parse_optional_key(r.key_jump_alt)]
      [] OTHER ->
           [move_left_primary |-> "A", move_left_alt |-> Some("Left"),
            move_right_primary |-> "D", move_right_alt |-> Some("Right"),
            jump_primary |-> "Space", jump_alt |-> Some("W")]

-----------------------------------------------------------------------------
(* generate_scene: level scaling and boss modifiers                        *)

\* level.saturating_sub(1)
LevelIndex(lv) == IF lv >= 1 THEN lv - 1 ELSE 0

\* 1 + scale * level_index, in halves
LevelFactor(scale, lv) == 2 + scale * LevelIndex(lv)

IsBossLevel(r, lv) ==
    r.boss_level_interval > 0 /\ lv > 0 /\ lv % r.boss_level_interval = 0

\* variant: a collect_fest level that leaves the enemies enabled
BossModifiersKeepEnemies(r, lv) ==
    LET plain == [enemy_enabled |-> r.enemy_enabled, collectible_multiplier |-> 2,
                  enemy_speed_mult |-> 2, enemy_damage_mult |-> 2, enemy_count_mult |-> 2] IN
    IF IsBossLevel(r, lv) /\ to_lowercase(r.boss_mode) \in {"collect_fest", "collectfest", "collect"}
    THEN [plain EXCEPT !.collectible_multiplier = Max(r.boss_collectibles_multiplier, 2)]
    ELSE plain

\* the modifier set of the level: multipliers in halves
BossModifiers(r, lv) ==
    LET plain == [enemy_enabled |-> r.enemy_enabled, collectible_multiplier |-> 2,
                  enemy_speed_mult |-> 2, enemy_damage_mult |-> 2, enemy_count_mult |-> 2]
        bmode == to_lowercase(r.boss_mode) IN
    IF ~IsBossLevel(r, lv) THEN plain
    ELSE CASE bmode \in {"collect_fest", "collectfest", "collect"} ->
                [plain EXCEPT !.enemy_enabled = FALSE,
                              !.collectible_multiplier = Max(r.boss_collectibles_multiplier, 2)]
           [] bmode \in {"boss_enemy", "boss"} ->
                [plain EXCEPT !.enemy_speed_mult = Max(r.boss_enemy_speed_multiplier, 0),
                              !.enemy_damage_mult = Max(r.boss_enemy_damage_multiplier, 0),
                              !.enemy_count_mult = Max(r.boss_enemy_count_multiplier, 0)]
           [] OTHER -> plain

\* effective enemy speed, count bounds and contact damage of the level
EffectiveEnemies(r, lv) ==
    LET m == BossModifiers(r, lv)
        min0 == Max(RoundHalf(r.min_enemies * LevelFactor(r.min_enemies_level_scale, lv)), 1)
        max0 == Max(RoundHalf(r.max_enemies * LevelFactor(r.max_enemies_level_scale, lv)), min0)
        min1 == Max(RoundHalf(min0 * m.enemy_count_mult), 1)
        max1 == Max(RoundHalf(max0 * m.enemy_count_mult), min1)
        speed0 == Max(r.enemy_speed * LevelFactor(r.enemy_speed_level_scale, lv), 0) IN
    [speed |-> (speed0 * m.enemy_speed_mult) \div 4,
     min |-> min1,
     max |-> max1,
     damage |-> Max(RoundHalf(Max(r.enemy_contact_damage, 1) * m.enemy_damage_mult), 1)]

-----------------------------------------------------------------------------
(* generate_scene: procedural platforms                                    *)

Clamp(v, lo, hi) == Max(lo, Min(v, hi))

\* f32::round of n/d for n >= 0, d > 0
RoundFrac(n, d) == (2 * n + d) \div (2 * d)

\* top and bottom of the platform band; the rule values are fractions of the height in halves
BandMinY(r, H) == Min((Clamp(r.platform_min_y, 0, 2) * H) \div 2, H)
BandMaxY(r, H) == Max((Clamp(r.platform_max_y, 0, 2) * H) \div 2, BandMinY(r, H) + 1)

\* variant: a single row is taken at the bottom of the band instead of its middle
RowTBottom(row, rows) == IF rows = 1 THEN [num |-> 0, den |-> 1] ELSE [num |-> row, den |-> rows - 1]

\* interpolation parameter of a row, as a fraction
RowT(row, rows) == IF rows = 1 THEN [num |-> 1, den |-> 2] ELSE [num |-> row, den |-> rows - 1]

RowY(r, H, row, rows) ==
    LET t == RowT(row, rows)
        span == Max(BandMaxY(r, H) - BandMinY(r, H), 1) IN
    BandMaxY(r, H) - (t.num * span) \div t.den

MaxByGap(r, W) ==
    IF r.platform_min_gap_x > 0 THEN Max(W \div r.platform_min_gap_x, 1)
    ELSE r.max_platforms_per_row

\* range the platform count of a band row is drawn from
RowRange(r, W, row, rows) ==
    LET t == RowT(row, rows)
        base_max == Min(r.max_platforms_per_row, Max(MaxByGap(r, W), 1))
        base_min == Max(Min(r.min_platforms_per_row, base_max), 1)
        d_num == r.platform_density_bottom * t.den
                 + (r.platform_density_top - r.platform_density_bottom) * t.num
        d_den == 2 * t.den
        floor == 10 * d_num < d_den
        max_for_row == Max(IF floor THEN RoundFrac(base_max, 10)
                           ELSE RoundFrac(base_max * d_num, d_den), 1)
        min_for_row == Max(Min(base_min, max_for_row), 1) IN
    [name |-> "platforms_per_row", lo |-> min_for_row, hi |-> max_for_row]

\* range the platform count of the ground row is drawn from
GroundRange(r, W) ==
    LET max_for_row == Min(r.max_platforms_per_row, Max(MaxByGap(r, W), 1))
        min_for_row == Max(Min(r.min_platforms_per_row, max_for_row), 1) IN
    [name |-> "ground_row", lo |-> min_for_row, hi |-> max_for_row]

GroundY(r, H) == (H * Clamp(r.ground_row_y_factor, 0, 4)) \div 2

RECURSIVE PlacePlatforms(_, _, _, _, _, _, _)
\* the loop that places n platforms at height y
PlacePlatforms(out, r, n, y, sprites, rl, W) ==
    IF n = 0 THEN [platforms |-> out, rng |-> r, panic |-> "none"]
    ELSE LET c == choose_random(sprites, r) IN
         IF ~c.v.some THEN PlacePlatforms(out, c.rng, n - 1, y, sprites, rl, W)
         ELSE LET tex_w == c.v.v.w * rl.sprite_scale
                  margin == tex_w \div 2 IN
              IF tex_w <= 0 THEN PlacePlatforms(out, c.rng, n - 1, y, sprites, rl, W)
              ELSE IF margin >= W - margin
              THEN [platforms |-> out, rng |-> c.rng, panic |-> "empty_float_range"]
              ELSE LET x == GenRange(c.rng, margin, W - margin - 1)
                       ph == GenPhase(x.rng) IN
                   PlacePlatforms(
                       Append(out, [texture |-> Texture(c.v.v),
                                    position |-> Vec2(x.v, y),
                                    base_position |-> Vec2(x.v, y),
                                    phase |-> ph.v,
                                    moving |-> rl.moving_platform_enabled,
                                    vertical |-> rl.moving_platform_vertical]),
                       ph.rng, n - 1, y, sprites, rl, W)

\* one row: draw the count from the range, then place the platforms
PlaceRow(platforms, r, range, y, sprites, rl, W) ==
    IF range.lo > range.hi
    THEN [platforms |-> platforms, rng |-> r, panic |-> "empty_range"]
    ELSE LET count == GenRange(r, range.lo, range.hi) IN
         PlacePlatforms(platforms, count.rng, count.v, y, sprites, rl, W)

-----------------------------------------------------------------------------
(* generate_scene: player and enemies                                      *)

NewEntity(kind, tex, pos, vel, value, health_value, phase, jumping) ==
    [kind |-> kind, texture |-> tex, position |-> pos, velocity |-> vel,
     value |-> value, health_value |-> health_value, base_position |-> pos,
     phase |-> phase, jumping |-> jumping]

\* variant: the player is placed at the left edge of the world
PlacePlayerAtEdge(sc, a, r) ==
    LET c == choose_random(sprites_of_kind(a, "Player"), r) IN
    IF c.v.some
    THEN [scene |-> [sc EXCEPT !.entities =
                        Append(@, NewEntity("Player", Texture(c.v.v),
                                            Vec2(0, 0), Vec2Zero, 0, 0, 0, FALSE))],
          rng |-> c.rng]
    ELSE [scene |-> sc, rng |-> c.rng]

PlacePlayer(sc, a, r) ==
    LET c == choose_random(sprites_of_kind(a, "Player"), r) IN
    IF c.v.some
    THEN [scene |-> [sc EXCEPT !.entities =
                        Append(@, NewEntity("Player", Texture(c.v.v),
                                            Vec2(sc.world_width \div 2, 0), Vec2Zero,
                                            0, 0, 0, FALSE))],
          rng |-> c.rng]
    ELSE [scene |-> sc, rng |-> c.rng]

EnemyRange(eff) == [name |-> "enemy_count", lo |-> eff.min, hi |-> eff.max]

RECURSIVE PlaceEnemies(_, _, _, _, _, _)
\* the loop that places n enemies
PlaceEnemies(sc, r, n, sprites, rl, speed) ==
    IF n = 0 THEN [scene |-> sc, rng |-> r, panic |-> "none"]
    ELSE LET c == choose_random(sprites, r)
             roll == IF sc.platforms # <<>> THEN GenChance(c.rng, rl.enemy_on_platform_chance)
                     ELSE [v |-> FALSE, rng |-> c.rng]
             idx == GenRange(roll.rng, 0, Len(sc.platforms) - 1)
             rows == Max(rl.enemy_spawn_rows, 1)
             row == GenRange(roll.rng, 0, rows - 1)
             fx == GenRange(row.rng, 0, sc.world_width - 1)
             pos == IF roll.v
                    THEN Vec2(sc.platforms[idx.v + 1].position.x,
                              sc.platforms[idx.v + 1].position.y - c.v.v.h * rl.sprite_scale)
                    ELSE Vec2(fx.v, RowY(rl, sc.world_height, row.v, rows))
             r1 == IF roll.v THEN idx.rng ELSE fx.rng
             dir == GenBool(r1)
             ph == GenPhase(dir.rng) IN
         IF ~c.v.some THEN PlaceEnemies(sc, c.rng, n - 1, sprites, rl, speed)
         ELSE IF ~roll.v /\ sc.world_width <= 0
         THEN [scene |-> sc, rng |-> row.rng, panic |-> "empty_float_range"]
         ELSE PlaceEnemies(
                 [sc EXCEPT !.entities =
                     Append(@, NewEntity("Enemy", Texture(c.v.v), pos,
                                         Vec2((IF dir.v THEN 1 ELSE -1) * speed, 0),
                                         0, 0, ph.v, rl.enemy_jump_enabled))],
                 ph.rng, n - 1, sprites, rl, speed)

-----------------------------------------------------------------------------
(* spawn_collectibles                                                      *)

\* range the base total is drawn from
CollectibleRange(r, lv) ==
    LET base_min == Max(r.min_collectibles, 0)
        base_max == Max(r.max_collectibles, base_min)
        effective_min == Max(RoundHalf(base_min * LevelFactor(r.min_collectibles_level_scale, lv)), 0)
        effective_max == Max(RoundHalf(base_max * LevelFactor(r.max_collectibles_level_scale, lv)),
                             effective_min) IN
    [name |-> "collectible_total", lo |-> effective_min, hi |-> Max(effective_max, effective_min)]

\* total = round(base_total * multiplier), the multiplier in halves
ScaledTotal(base_total, multiplier) == Max(RoundHalf(base_total * Max(multiplier, 0)), 0)

ClusterRange(r) ==
    LET cluster_min == Max(r.collectible_cluster_size_min, 1)
        cluster_max == Max(r.collectible_cluster_size_max, cluster_min) IN
    [name |-> "cluster_size", lo |-> cluster_min, hi |-> cluster_max]

\* variant: the drawn size is not cut to the budget left
ClusterSizeUncut(drawn, remaining) == Max(drawn, 1)

\* size of the next cluster from the value drawn and the budget left
ClusterSize(drawn, remaining) == Max(Min(drawn, remaining), 1)

RECURSIVE SortFrom(_, _)
SortFrom(platforms, S) ==
    IF S = {} THEN <<>>
    ELSE LET m == CHOOSE i \in S : \A j \in S :
                     \/ platforms[i].position.x < platforms[j].position.x
                     \/ (platforms[i].position.x = platforms[j].position.x /\ i <= j) IN
         <<m>> \o SortFrom(platforms, S \ {m})

\* platform indices sorted by x (sort_by is stable: equal x keeps list order)
SortedIndices(platforms) == SortFrom(platforms, 1..Len(platforms))

\* one collectible on a platform: sprite choice, rare roll, phase
PlaceCollectible(sc, r, platform, sprites, rl) ==
    LET c == choose_random(sprites, r)
        rare == GenChance(c.rng, rl.rare_collectible_chance)
        ph == GenPhase(rare.rng)
        pos == Vec2(platform.position.x, platform.position.y - c.v.v.h * rl.sprite_scale) IN
    IF ~c.v.some THEN [scene |-> sc, rng |-> c.rng]
    ELSE [scene |-> [sc EXCEPT !.entities =
                        Append(@, NewEntity("Collectible", Texture(c.v.v), pos, Vec2Zero,
                                   IF rare.v THEN rl.rare_collectible_value ELSE rl.collectible_value,
                                   IF rare.v THEN rl.rare_collectible_health_value
                                   ELSE rl.collectible_health_value,
                                   ph.v, FALSE))],
          rng |-> ph.rng]

RECURSIVE PlacePath(_, _, _, _, _, _, _, _)
\* path mode: members i..size-1 of the cluster on consecutive platforms of the sorted order
PlacePath(sc, r, order, start_idx, i, size, sprites, rl) ==
    IF i >= size THEN [scene |-> sc, rng |-> r]
    ELSE LET one == PlaceCollectible(sc, r, sc.platforms[order[start_idx + i + 1]], sprites, rl) IN
         PlacePath(one.scene, one.rng, order, start_idx, i + 1, size, sprites, rl)

\* variant: scatter mode places one member of the cluster only
PlaceScatterOnce(sc, r, n, sprites, rl) ==
    LET idx == GenRange(r, 0, Len(sc.platforms) - 1)
        one == PlaceCollectible(sc, idx.rng, sc.platforms[idx.v + 1], sprites, rl) IN
    [scene |-> one.scene, rng |-> one.rng]

RECURSIVE PlaceScatter(_, _, _, _, _)
\* scatter mode: each member on an independently drawn platform
PlaceScatter(sc, r, n, sprites, rl) ==
    IF n = 0 THEN [scene |-> sc, rng |-> r]
    ELSE LET idx == GenRange(r, 0, Len(sc.platforms) - 1)
             one == PlaceCollectible(sc, idx.rng, sc.platforms[idx.v + 1], sprites, rl) IN
         PlaceScatter(one.scene, one.rng, n - 1, sprites, rl)

\* one iteration of the cluster loop
SpawnCluster(sc, r, remaining, order, sprites, rl) ==
    LET range == ClusterRange(rl)
        drawn == GenRange(r, range.lo, range.hi)
        cluster_size == ClusterSize(drawn.v, remaining)
        start == GenRange(drawn.rng, 0, Len(order) - cluster_size)
        placed == IF sc.platforms = <<>> THEN [scene |-> sc, rng |-> drawn.rng]
                  ELSE IF rl.collectibles_follow_path /\ Len(order) >= cluster_size
                  THEN PlacePath(sc, start.rng, order, start.v, 0, cluster_size, sprites, rl)
                  ELSE PlaceScatter(sc, drawn.rng, cluster_size, sprites, rl) IN
    [scene |-> placed.scene, rng |-> placed.rng,
     size |-> cluster_size,
     remaining |-> remaining - cluster_size,
     stop |-> sc.platforms = <<>>,
     ranges |-> <<range>> \o
                (IF sc.platforms # <<>> /\ rl.collectibles_follow_path /\ Len(order) >= cluster_size
                 THEN <<[name |-> "path_start", lo |-> 0, hi |-> Len(order) - cluster_size]>>
                 ELSE <<>>)]

-----------------------------------------------------------------------------
(* Authored levels                                                         *)

\* load_custom_level: the definition on disk, if the file exists and parses
load_custom_level(dk) == IF dk.state = "ok" THEN Some(dk.def) ELSE None

RECURSIVE ApplyPlatforms(_, _, _)
ApplyPlatforms(sc, a, defs) ==
    IF defs = <<>> THEN sc
    ELSE LET p == Head(defs)
             sprite == SpriteOrFirst(a, "Platform", p.sprite) IN
         ApplyPlatforms(
             IF sprite.some
             THEN [sc EXCEPT !.platforms =
                      Append(@, [texture |-> Texture(sprite.v),
                                 position |-> Vec2(p.x, p.y),
                                 base_position |-> Vec2(p.x, p.y),
                                 phase |-> 0,
                                 moving |-> p.moving,
                                 vertical |-> p.vertical])]
             ELSE sc,
             a, Tail(defs))

RECURSIVE ApplyEnemies(_, _, _, _)
ApplyEnemies(sc, a, rl, defs) ==
    IF defs = <<>> THEN sc
    ELSE LET e_def == Head(defs)
             sprite == SpriteOrFirst(a, "Enemy", e_def.sprite) IN
         ApplyEnemies(
             IF sprite.some
             THEN [sc EXCEPT !.entities =
                      Append(@, NewEntity("Enemy", Texture(sprite.v), Vec2(e_def.x, e_def.y),
                                          Vec2(rl.enemy_speed, 0), 0, 0, 0, e_def.jumping))]
             ELSE sc,
             a, rl, Tail(defs))

RECURSIVE ApplyCollectibles(_, _, _, _)
ApplyCollectibles(sc, a, rl, defs) ==
    IF defs = <<>> THEN sc
    ELSE LET c == Head(defs)
             sprite == SpriteOrFirst(a, "Collectible", c.sprite) IN
         ApplyCollectibles(
             IF sprite.some
             THEN [sc EXCEPT !.entities =
                      Append(@, NewEntity("Collectible", Texture(sprite.v), Vec2(c.x, c.y), Vec2Zero,
                                          IF c.value > 0 THEN c.value ELSE rl.collectible_value,
                                          IF c.health > 0 THEN c.health
                                          ELSE rl.collectible_health_value,
                                          0, FALSE))]
             ELSE sc,
             a, rl, Tail(defs))

\* variant: the platforms are pushed before the player sprite is looked up
apply_custom_level_def_platforms_first(sc, a, rl, def) ==
    LET s2 == ApplyPlatforms(sc, a, def.platforms) IN
    [ok |-> sprites_of_kind(a, "Player") # <<>>, scene |-> s2]

apply_custom_level_def(sc, a, rl, def) ==
    LET players == sprites_of_kind(a, "Player")
        start == IF def.player_start.some
                 THEN Vec2(def.player_start.v.x, def.player_start.v.y)
                 ELSE Vec2(sc.world_width \div 2, 0) IN
    IF players = <<>> THEN [ok |-> FALSE, scene |-> sc]
    ELSE LET s1 == [sc EXCEPT !.entities =
                       Append(@, NewEntity("Player", Texture(players[1]), start, Vec2Zero,
                                           0, 0, 0, FALSE))]
             s2 == ApplyPlatforms(s1, a, def.platforms)
             s3 == ApplyEnemies(s2, a, rl, def.enemies)
             s4 == ApplyCollectibles(s3, a, rl, def.collectibles) IN
         [ok |-> TRUE, scene |-> s4]

apply_custom_level(sc, a, rl, dk) ==
    LET def == load_custom_level(dk) IN
    IF def.some THEN apply_custom_level_def(sc, a, rl, def.v)
    ELSE [ok |-> FALSE, scene |-> sc]

-----------------------------------------------------------------------------
(* Bounds and the inputs the generator is run on                           *)

MaxCluster == 3
MaxCollectibles == 3
MaxPerRow == 2
MaxRows == 2
MaxEnemies == 2
MaxLevel == 4
MaxSeed == 3

\* GameRules::default, in model units
BaseRules ==
    [mode |-> "normal", control_scheme |-> "both",
     key_left_primary |-> "A", key_left_alt |-> "Left",
     key_right_primary |-> "D", key_right_alt |-> "Right",
     key_jump_primary |-> "Space", key_jump_alt |-> "W",
     enemy_enabled |-> TRUE, collectible_enabled |-> TRUE,
     collectibles_for_level_up |-> 100, max_level |-> 1000, auto_respawn_collectibles |-> TRUE,
     player_start_health |-> 5, player_max_health |-> 3,
     enemy_contact_damage |-> 1, hit_invincibility_duration |-> 2,
     player_move_speed |-> 2, player_jump_strength |-> 4, gravity |-> 2,
     enemy_speed |-> 4, enemy_gravity_scale |-> 0, enemy_spawn_rows |-> 2,
     min_enemies |-> 1, max_enemies |-> 2,
     min_collectibles |-> 1, max_collectibles |-> 2,
     platform_rows |-> 2, min_platforms_per_row |-> 1, max_platforms_per_row |-> 2,
     platform_min_gap_x |-> 8, platform_min_y |-> 1, platform_max_y |-> 2,
     ground_row_enabled |-> TRUE, ground_row_y_factor |-> 2,
     enemy_on_platform_chance |-> 1,
     collectible_value |-> 1, rare_collectible_chance |-> 1, rare_collectible_value |-> 5,
     collectible_health_value |-> 1, rare_collectible_health_value |-> 5,
     collectibles_follow_path |-> FALSE,
     collectible_cluster_size_min |-> 1, collectible_cluster_size_max |-> 3,
     sprite_scale |-> 1, player_fall_respawn_offset |-> 8,
     enemy_speed_level_scale |-> 0, max_enemies_level_scale |-> 0,
     min_enemies_level_scale |-> 0, min_collectibles_level_scale |-> 0,
     max_collectibles_level_scale |-> 0,
     platform_density_bottom |-> 3, platform_density_top |-> 1,
     moving_platform_enabled |-> FALSE, moving_platform_vertical |-> FALSE,
     moving_platform_speed |-> 1, moving_platform_amplitude |-> 2,
     collectible_bob_enabled |-> FALSE, collectible_bob_amplitude |-> 2,
     collectible_bob_speed |-> 1,
     enemy_jump_enabled |-> FALSE, enemy_jump_interval |-> 2, enemy_jump_strength |-> 4,
     boss_level_interval |-> 5, boss_mode |-> "collect_fest",
     boss_collectibles_multiplier |-> 6, boss_enemy_speed_multiplier |-> 3,
     boss_enemy_damage_multiplier |-> 4, boss_enemy_count_multiplier |-> 4,
     enemy_shoot_enabled |-> FALSE, enemy_shoot_interval |-> 3, enemy_shoot_range |-> 20,
     projectile_speed |-> 4, projectile_damage |-> 1,
     particles_enabled |-> TRUE, jump_particle_count |-> 2, hit_particle_count |-> 2,
     pickup_particle_count |-> 1,
     enemy_behavior_mode |-> "patrol", enemy_chase_range |-> 8,
     enemy_circle_radius |-> 2, enemy_circle_speed |-> 1]

Sprite(kind, name, w, h) == [kind |-> kind, name |-> name, w |-> w, h |-> h]

Kinds == {"Player", "Enemy", "Background", "Platform", "Collectible"}

AllSprites ==
    <<Sprite("Player", "hero", 4, 4),
      Sprite("Enemy", "slime", 4, 4),
      Sprite("Enemy", "bat", 4, 2),
      Sprite("Collectible", "coin", 2, 2),
      Sprite("Platform", "grass", 8, 2),
      Sprite("Background", "sky", 32, 24),
      Sprite("Background", "cave", 32, 24)>>

\* the catalog in which the kinds of the set missing have no sprite
Catalog(missing) == [sprites |-> SelectSeq(AllSprites, LAMBDA sp : sp.kind \notin missing)]

FullCatalog == Catalog({})

\* world size handed to generate_scene by make_scene
WorldSize == Vec2(32, 24)

NoFile == [state |-> "missing"]
BadFile == [state |-> "corrupt"]

\* an authored level: platforms, one enemy, two collectibles, named and unnamed sprites
AuthoredLevel ==
    [player_start |-> Some(Vec2(8, 4)),
     platforms |-> <<[sprite |-> "grass", x |-> 8, y |-> 12, moving |-> FALSE, vertical |-> FALSE],
                     [sprite |-> "stone", x |-> 22, y |-> 12, moving |-> TRUE, vertical |-> TRUE]>>,
     enemies |-> <<[sprite |-> "BAT", x |-> 22, y |-> 9, jumping |-> TRUE]>>,
     collectibles |-> <<[sprite |-> "coin", x |-> 12, y |-> 10, value |-> 0, health |-> 0],
                        [sprite |-> "gem", x |-> 16, y |-> 10, value |-> 3, health |-> 2]>>]

GoodFile == [state |-> "ok", def |-> AuthoredLevel]

Config(r, a, lv, dk) == [rules |-> r, assets |-> a, level |-> lv, disk |-> dk]

\* cluster sizes and collectible counts, inverted and zero bounds included
ClusterConfigs ==
    {Config([BaseRules EXCEPT !.collectible_cluster_size_min = a,
                              !.collectible_cluster_size_max = b,
                              !.min_collectibles = c,
                              !.max_collectibles = d,
                              !.collectibles_follow_path = f],
            FullCatalog, 1, NoFile) :
        a \in 0..MaxCluster, b \in 0..MaxCluster,
        c \in 0..MaxCollectibles, d \in 0..MaxCollectibles, f \in BOOLEAN}

\* boss levels
BossConfigs ==
    {Config([BaseRules EXCEPT !.boss_level_interval = i,
                              !.boss_mode = m,
                              !.boss_collectibles_multiplier = k,
                              !.enemy_enabled = e,
                              !.mode = md],
            FullCatalog, lv, GoodFile) :
        i \in {0, 2}, m \in {"collect_fest", "Collect_Fest", "boss", "BOSS", "party"},
        k \in {1, 2, 3, 6}, e \in BOOLEAN, md \in {"normal", "custom"}, lv \in 1..MaxLevel}

\* platform and enemy counts, inverted and zero bounds included
CountConfigs ==
    {Config([BaseRules EXCEPT !.platform_rows = rows,
                              !.min_platforms_per_row = a,
                              !.max_platforms_per_row = b,
                              !.ground_row_enabled = g,
                              !.platform_min_gap_x = gap],
            FullCatalog, 1, NoFile) :
        rows \in 0..MaxRows, a \in 0..MaxPerRow, b \in 0..MaxPerRow,
        g \in BOOLEAN, gap \in {0, 8, 40}}
    \cup
    {Config([BaseRules EXCEPT !.min_enemies = a,
                              !.max_enemies = b,
                              !.min_enemies_level_scale = sa,
                              !.max_enemies_level_scale = sb,
                              !.enemy_on_platform_chance = ch],
            FullCatalog, lv, NoFile) :
        a \in 0..MaxEnemies, b \in 0..MaxEnemies, sa \in {-1, 0, 1}, sb \in {-1, 0, 1},
        ch \in {0, 1, 2}, lv \in {1, 3}}
    \cup
    {Config([BaseRules EXCEPT !.platform_rows = 1,
                              !.min_platforms_per_row = n,
                              !.max_platforms_per_row = n,
                              !.ground_row_enabled = FALSE,
                              !.enemy_enabled = FALSE,
                              !.collectible_enabled = FALSE,
                              !.platform_min_gap_x = gap],
            Catalog(missing), lv, NoFile) :
        n \in 1..MaxPerRow, gap \in {0, 8, 40},
        missing \in {{}, {"Background", "Enemy", "Collectible"}}, lv \in {1, MaxLevel}}
    \cup
    {Config([BaseRules EXCEPT !.platform_min_gap_x = 40,
                              !.platform_density_bottom = d,
                              !.platform_density_top = d],
            FullCatalog, 1, NoFile) : d \in {4, 6}}

\* game mode, authored level file and catalog
CatalogConfigs ==
    {Config([BaseRules EXCEPT !.mode = md, !.collectibles_follow_path = f],
            Catalog(missing), 1, dk) :
        md \in {"normal", "custom", "Custom"}, f \in BOOLEAN,
        missing \in SUBSET Kinds, dk \in {NoFile, BadFile, GoodFile}}
    \cup
    {Config([BaseRules EXCEPT !.max_platforms_per_row = 0], Catalog(missing), 1, NoFile) :
        missing \in SUBSET Kinds}

Configs == ClusterConfigs \cup BossConfigs \cup CountConfigs \cup CatalogConfigs

-----------------------------------------------------------------------------
(* generate_scene as a state machine: one step per phase, one step per     *)
(* platform row and per collectible cluster                                *)

GenLocals == [pc |-> "start", call |-> 1, row |-> 0, total |-> 0, remaining |-> 0,
              sum |-> 0, order |-> <<>>, panic |-> "none"]

NoObs == [kind |-> "none", ranges |-> <<>>]
GenObs(ranges) == [kind |-> "gen", ranges |-> ranges]

\* locals of main before the loop is entered
MainLocals == [state |-> "MainMenu", total_collected |-> 0, settings_return_to |-> "Paused",
               frames |-> 0, event |-> "none"]

GenInit ==
    /\ \E c \in Configs :
          /\ rules = c.rules
          /\ assets = c.assets
          /\ level = c.level
          /\ disk = c.disk
    /\ screen_size = WorldSize
    /\ seed \in 1..MaxSeed
    /\ rng = SeedRng(seed)
    /\ scene = SceneNew(rules, 0, 1, build_input_config(rules), 0, 0)
    /\ gen = GenLocals
    /\ first = None
    /\ obs = NoObs
    /\ main = MainLocals

inputs == <<rules, assets, level, disk, screen_size, seed, main>>

\* entry of generate_scene: scaling, boss modifiers, Scene::new, background
GenStart ==
    /\ gen.pc = "start"
    /\ LET eff == EffectiveEnemies(rules, level)
           bg == choose_random(sprites_of_kind(assets, "Background"), rng)
           s0 == SceneNew(rules, eff.speed, eff.damage, build_input_config(rules),
                          screen_size.x, screen_size.y) IN
       /\ scene' = IF bg.v.some THEN [s0 EXCEPT !.background = Some(Texture(bg.v.v))] ELSE s0
       /\ rng' = bg.rng
    /\ gen' = [gen EXCEPT !.pc = IF eq_ignore_ascii_case(rules.mode, "custom") /\ gen.call # 3
                                  THEN "custom" ELSE "platforms",
                          !.row = 0, !.total = 0, !.remaining = 0, !.sum = 0, !.order = <<>>]
    /\ obs' = GenObs(<<>>)
    /\ UNCHANGED <<inputs, first>>

\* custom mode: the authored level replaces procedural generation when it applies
GenCustom ==
    /\ gen.pc = "custom"
    /\ LET res == apply_custom_level(scene, assets, rules, disk) IN
       /\ scene' = res.scene
       /\ gen' = [gen EXCEPT !.pc = IF res.ok THEN "done" ELSE "platforms"]
       /\ obs' = [GenObs(<<>>) EXCEPT !.kind = IF res.ok THEN "authored" ELSE "fallback"]
    /\ UNCHANGED <<inputs, rng, first>>

\* one row of the platform band
GenRow ==
    /\ gen.pc = "platforms"
    /\ LET sprites == sprites_of_kind(assets, "Platform")
           rows == Max(rules.platform_rows, 1)
           range == RowRange(rules, screen_size.x, gen.row, rows)
           res == PlaceRow(scene.platforms, rng, range, RowY(rules, screen_size.y, gen.row, rows),
                           sprites, rules, screen_size.x) IN
       IF sprites = <<>>
       THEN /\ gen' = [gen EXCEPT !.pc = "player"]
            /\ obs' = GenObs(<<>>)
            /\ UNCHANGED <<scene, rng>>
       ELSE /\ scene' = [scene EXCEPT !.platforms = res.platforms]
            /\ rng' = res.rng
            /\ obs' = GenObs(<<range>>)
            /\ gen' = IF res.panic # "none" THEN [gen EXCEPT !.pc = "panic", !.panic = res.panic]
                      ELSE IF gen.row + 1 < rows THEN [gen EXCEPT !.row = @ + 1]
                      ELSE [gen EXCEPT !.pc = IF rules.ground_row_enabled THEN "ground"
                                               ELSE "player"]
    /\ UNCHANGED <<inputs, first>>

\* the fixed ground row
GenGround ==
    /\ gen.pc = "ground"
    /\ LET range == GroundRange(rules, screen_size.x)
           res == PlaceRow(scene.platforms, rng, range, GroundY(rules, screen_size.y),
                           sprites_of_kind(assets, "Platform"), rules, screen_size.x) IN
       /\ scene' = [scene EXCEPT !.platforms = res.platforms]
       /\ rng' = res.rng
       /\ obs' = GenObs(<<range>>)
       /\ gen' = IF res.panic # "none" THEN [gen EXCEPT !.pc = "panic", !.panic = res.panic]
                 ELSE [gen EXCEPT !.pc = "player"]
    /\ UNCHANGED <<inputs, first>>

GenPlayer ==
    /\ gen.pc = "player"
    /\ LET res == PlacePlayer(scene, assets, rng) IN
       /\ scene' = res.scene
       /\ rng' = res.rng
    /\ gen' = [gen EXCEPT !.pc = "enemies"]
    /\ obs' = GenObs(<<>>)
    /\ UNCHANGED <<inputs, first>>

GenEnemies ==
    /\ gen.pc = "enemies"
    /\ LET sprites == sprites_of_kind(assets, "Enemy")
           eff == EffectiveEnemies(rules, level)
           range == EnemyRange(eff)
           count == GenRange(rng, range.lo, range.hi)
           res == PlaceEnemies(scene, count.rng, count.v, sprites, rules, eff.speed) IN
       IF ~(BossModifiers(rules, level).enemy_enabled /\ sprites # <<>>)
       THEN /\ gen' = [gen EXCEPT !.pc = "collectibles"]
            /\ obs' = GenObs(<<>>)
            /\ UNCHANGED <<scene, rng>>
       ELSE IF range.lo > range.hi
       THEN /\ gen' = [gen EXCEPT !.pc = "panic", !.panic = "empty_range"]
            /\ obs' = GenObs(<<range>>)
            /\ UNCHANGED <<scene, rng>>
       ELSE /\ scene' = res.scene
            /\ rng' = res.rng
            /\ obs' = GenObs(<<range>>)
            /\ gen' = IF res.panic # "none" THEN [gen EXCEPT !.pc = "panic", !.panic = res.panic]
                      ELSE [gen EXCEPT !.pc = "collectibles"]
    /\ UNCHANGED <<inputs, first>>

\* entry of spawn_collectibles: early return, total, sorted platform order
SpawnStart ==
    /\ gen.pc = "collectibles"
    /\ LET range == CollectibleRange(rules, level)
           base_total == GenRange(rng, range.lo, range.hi)
           total == ScaledTotal(base_total.v,
                                IF gen.call = 4 THEN 2
                                ELSE BossModifiers(rules, level).collectible_multiplier) IN
       IF \/ ~rules.collectible_enabled
          \/ sprites_of_kind(assets, "Collectible") = <<>>
          \/ scene.platforms = <<>>
       THEN /\ gen' = [gen EXCEPT !.pc = "done"]
            /\ obs' = GenObs(<<>>)
            /\ UNCHANGED rng
       ELSE IF range.lo > range.hi
       THEN /\ gen' = [gen EXCEPT !.pc = "panic", !.panic = "empty_range"]
            /\ obs' = GenObs(<<range>>)
            /\ UNCHANGED rng
       ELSE /\ rng' = base_total.rng
            /\ obs' = [GenObs(<<range>>) EXCEPT !.kind = "total"] @@ [base_total |-> base_total.v]
            /\ gen' = [gen EXCEPT !.pc = IF total > 0 THEN "cluster" ELSE "done",
                                  !.total = total, !.remaining = total, !.sum = 0,
                                  !.order = SortedIndices(scene.platforms)]
    /\ UNCHANGED <<inputs, scene, first>>

\* one iteration of the cluster loop of spawn_collectibles
SpawnClusterStep ==
    /\ gen.pc = "cluster"
    /\ LET res == SpawnCluster(scene, rng, gen.remaining, gen.order,
                               sprites_of_kind(assets, "Collectible"), rules) IN
       /\ scene' = res.scene
       /\ rng' = res.rng
       /\ obs' = [GenObs(res.ranges) EXCEPT !.kind = "cluster"]
                 @@ [size |-> res.size, remaining_before |-> gen.remaining]
       /\ gen' = [gen EXCEPT !.remaining = res.remaining,
                             !.sum = @ + res.size,
                             !.pc = IF res.stop \/ res.remaining <= 0 THEN "done" ELSE "cluster"]
    /\ UNCHANGED <<inputs, first>>

\* what two calls are compared on
Result == [background |-> scene.background, platforms |-> scene.platforms,
           entities |-> scene.entities, rng |-> rng]

\* a second, independent call with the same inputs and the same RNG state
CallAgain ==
    /\ gen.pc = "done"
    /\ gen.call = 1
    /\ first' = Some(Result)
    /\ rng' = SeedRng(seed)
    /\ gen' = [GenLocals EXCEPT !.call = 2]
    /\ obs' = NoObs
    /\ UNCHANGED <<inputs, scene>>

\* the reference call of a custom-mode run: the same inputs and RNG state, generated
\* procedurally as generate_scene does when rules.mode is not "custom"
CallProcedural ==
    /\ gen.pc = "done"
    /\ gen.call = 1
    /\ eq_ignore_ascii_case(rules.mode, "custom")
    /\ first' = Some(Result)
    /\ rng' = SeedRng(seed)
    /\ gen' = [GenLocals EXCEPT !.call = 3]
    /\ obs' = NoObs
    /\ UNCHANGED <<inputs, scene>>

GenNext ==
    \/ GenStart
    \/ GenCustom
    \/ GenRow
    \/ GenGround
    \/ GenPlayer
    \/ GenEnemies
    \/ SpawnStart
    \/ SpawnClusterStep
    \/ CallAgain
    \/ CallProcedural

SpecGen == GenInit /\ [][GenNext]_vars

-----------------------------------------------------------------------------
(* The simulation: scenes built from authored levels, ticked by the main   *)
(* loop with the frame time and the keyboard state of the frame            *)

MaxTicks == 3
MaxDt == 2
\* a frame that took long (a stall of the host), in the same units
LongDt == 8
MaxInvincibility == 3

\* a level with the player at rest on a platform, an enemy in contact, health pickups nearby
Arena ==
    [player_start |-> Some(Vec2(8, 9)),
     platforms |-> <<[sprite |-> "grass", x |-> 8, y |-> 12, moving |-> FALSE, vertical |-> FALSE],
                     [sprite |-> "grass", x |-> 26, y |-> 20, moving |-> TRUE, vertical |-> FALSE],
                     [sprite |-> "grass", x |-> 22, y |-> 3, moving |-> TRUE, vertical |-> TRUE]>>,
     enemies |-> <<[sprite |-> "slime", x |-> 12, y |-> 9, jumping |-> FALSE]>>,
     collectibles |-> <<[sprite |-> "coin", x |-> 4, y |-> 10, value |-> 0, health |-> 0],
                        [sprite |-> "gem", x |-> 2, y |-> 10, value |-> 3, health |-> 2]>>]

\* the Arena, the Arena with a second enemy further off, both within shooting range,
\* and the Arena with enemies that jump: two on the ground, one without the flag, one
\* in the air
SimLevels ==
    {Arena,
     [Arena EXCEPT !.enemies = Append(@, [sprite |-> "bat", x |-> 20, y |-> 9,
                                          jumping |-> FALSE])],
     [Arena EXCEPT !.enemies = <<[sprite |-> "slime", x |-> 12, y |-> 9, jumping |-> TRUE],
                                 [sprite |-> "slime", x |-> 10, y |-> 9, jumping |-> FALSE],
                                 [sprite |-> "slime", x |-> 6, y |-> 9, jumping |-> TRUE],
                                 [sprite |-> "bat", x |-> 20, y |-> 9, jumping |-> TRUE]>>]}

\* the enemy stands in contact with the player and shoots
Standing ==
    [BaseRules EXCEPT !.mode = "custom", !.enemy_speed = 0, !.enemy_shoot_enabled = TRUE]

SimRules ==
    {[Standing EXCEPT !.hit_invincibility_duration = d] : d \in {0, 2, MaxInvincibility}}
    \cup {[BaseRules EXCEPT !.mode = "custom", !.gravity = 0],
          [BaseRules EXCEPT !.mode = "custom", !.gravity = 0, !.enemy_behavior_mode = "guard"],
          [Standing EXCEPT !.player_max_health = 0, !.player_start_health = 0],
          [Standing EXCEPT !.particles_enabled = FALSE],
          [Standing EXCEPT !.moving_platform_enabled = TRUE]}
    \cup {[Standing EXCEPT !.enemy_jump_enabled = TRUE, !.enemy_gravity_scale = 2,
                            !.enemy_jump_strength = 1, !.enemy_jump_interval = i] :
             i \in {0, 2}}
    \cup {[Standing EXCEPT !.enemy_behavior_mode = "circle", !.enemy_gravity_scale = g] :
             g \in {0, 2}}

\* keyboard states of a frame: keys held and keys newly pressed
KeyStates ==
    {[down |-> {}, pressed |-> {}],
     [down |-> {"A"}, pressed |-> {}],
     [down |-> {"Right"}, pressed |-> {"Right"}],
     [down |-> {"Space"}, pressed |-> {"Space"}],
     [down |-> {"Space"}, pressed |-> {}]}

SimInit ==
    /\ rules \in SimRules
    /\ assets = FullCatalog
    /\ level = 1
    /\ disk \in {[state |-> "ok", def |-> lv] : lv \in SimLevels}
    /\ \/ disk.def = Arena
       \/ rules = Standing
       \/ rules.enemy_jump_enabled /\ disk.def.enemies[1].jumping
    /\ screen_size = WorldSize
    /\ seed = 1
    /\ rng = SeedRng(seed)
    /\ LET eff == EffectiveEnemies(rules, level)
           s0 == SceneNew(rules, eff.speed, eff.damage, build_input_config(rules),
                          screen_size.x, screen_size.y) IN
       scene = apply_custom_level(s0, assets, rules, disk).scene
    /\ gen = [GenLocals EXCEPT !.pc = "done"]
    /\ first = None
    /\ obs = [kind |-> "new", ticks |-> 0, since |-> -1, last_jump |-> -1, last_shot |-> -1]
    /\ main = [MainLocals EXCEPT !.state = "Playing"]

\* the scene and the record of a frame whose update returned res
Frame(res, dt, kb) ==
    /\ scene' = res.scene
    /\ obs' = [kind |-> "tick", ticks |-> obs.ticks + 1, dt |-> dt, kb |-> kb,
               damaged |-> res.damaged, damage |-> res.damage,
               overlap_enemy |-> res.overlap_enemy,
               overlap_projectile |-> res.overlap_projectile,
               timer_after |-> DecTimer(scene.hit_timer, dt),
               health_before |-> scene.player_health,
               collected_health |-> res.collected_health,
               collected_value |-> res.collected_value,
               spawned |-> res.spawned,
               enemy_jumped |-> res.enemy_jumped,
               jump_sound |-> res.jump_sound,
               last_shot |-> IF res.spawned > 0 THEN res.scene.time ELSE obs.last_shot,
               shot_gap |-> IF res.spawned > 0 /\ obs.last_shot >= 0
                            THEN res.scene.time - obs.last_shot ELSE -1,
               last_jump |-> IF res.enemy_jumped # {} THEN res.scene.time ELSE obs.last_jump,
               jump_gap |-> IF res.enemy_jumped # {} /\ obs.last_jump >= 0
                            THEN res.scene.time - obs.last_jump ELSE -1,
               gap |-> IF res.damaged /\ obs.since >= 0 THEN obs.since + dt ELSE -1,
               since |-> IF res.damaged THEN 0
                         ELSE IF obs.since < 0 THEN -1
                         ELSE Min(obs.since + dt, MaxInvincibility + MaxDt)]

\* one frame of the Playing state: scene.update(dt, ...)
Tick ==
    /\ obs.ticks < MaxTicks
    /\ ~scene.player_dead
    /\ \E dt \in {1, MaxDt, LongDt}, kb \in KeyStates :
          Frame(update(scene, dt, kb), dt, kb)
    /\ UNCHANGED <<inputs, rng, gen, first>>

SimNext == Tick

SpecSim == SimInit /\ [][SimNext]_vars

-----------------------------------------------------------------------------
(* The main loop: menus, runs, regeneration of the scene. generate_scene   *)
(* runs as the steps of the generator above; gen.call = 4 marks a call of  *)
(* spawn_collectibles made by the loop itself                              *)

MaxFrames == 4

\* the rules are those of a short game: two levels, one hit kills, and one collectible
\* or a hundred of them level up
MainInit ==
    /\ rules \in {[BaseRules EXCEPT !.collectibles_for_level_up = n, !.max_level = 2,
                                    !.player_max_health = 1, !.enemy_speed = 0] :
                    n \in {1, 100}}
                 \cup {[BaseRules EXCEPT !.max_level = 2, !.player_max_health = 1,
                                         !.enemy_speed = 2]}
    /\ assets = FullCatalog
    /\ level = 1
    /\ disk = [state |-> "ok", def |-> Arena]
    /\ screen_size = WorldSize
    /\ seed \in {1, 2, 21}
    /\ (seed = 21 <=> rules.enemy_speed # 0)
    /\ rng = SeedRng(seed)
    /\ scene = SceneNew(rules, 0, 1, build_input_config(rules), 0, 0)
    /\ gen = GenLocals
    /\ first = None
    /\ obs = NoObs
    /\ main = MainLocals

\* variant: a new run goes on with the RNG stream of the run before
StartRunStale ==
    /\ gen.pc = "done"
    /\ main.frames < MaxFrames
    /\ main.event # "r_key"
    /\ \E e \in {[from |-> "MainMenu", event |-> "play"],
                 [from |-> "MainMenu", event |-> "custom"],
                 [from |-> "GameOver", event |-> "game_over_enter"],
                 [from |-> "Won", event |-> "won_enter"]} :
          /\ main.state = e.from
          /\ rules' = IF e.event = "custom" THEN [rules EXCEPT !.mode = "custom"] ELSE rules
          /\ main' = [main EXCEPT !.state = "Playing", !.total_collected = 0,
                                  !.event = e.event, !.frames = @ + 1]
    /\ level' = 1
    /\ gen' = GenLocals
    /\ obs' = NoObs
    /\ UNCHANGED <<assets, disk, screen_size, seed, rng, scene, first>>

\* variant: a new run goes on in the scene of the run before
StartRunKeepsScene ==
    /\ gen.pc = "done"
    /\ main.frames < MaxFrames
    /\ main.event # "r_key"
    /\ \E e \in {[from |-> "MainMenu", event |-> "play"],
                 [from |-> "MainMenu", event |-> "custom"],
                 [from |-> "GameOver", event |-> "game_over_enter"],
                 [from |-> "Won", event |-> "won_enter"]} :
          /\ main.state = e.from
          /\ rules' = IF e.event = "custom" THEN [rules EXCEPT !.mode = "custom"] ELSE rules
          /\ main' = [main EXCEPT !.state = "Playing", !.total_collected = 0,
                                  !.event = e.event, !.frames = @ + 1]
    /\ level' = 1
    /\ rng' = SeedRng(seed)
    /\ obs' = NoObs
    /\ UNCHANGED <<assets, disk, screen_size, seed, scene, gen, first>>

\* a brand-new run: Play or Custom Levels in the main menu, Enter on GameOver or Won
StartRun ==
    /\ gen.pc = "done"
    /\ main.frames < MaxFrames
    /\ main.event # "r_key"
    /\ \E e \in {[from |-> "MainMenu", event |-> "play"],
                 [from |-> "MainMenu", event |-> "custom"],
                 [from |-> "GameOver", event |-> "game_over_enter"],
                 [from |-> "Won", event |-> "won_enter"]} :
          /\ main.state = e.from
          /\ rules' = IF e.event = "custom" THEN [rules EXCEPT !.mode = "custom"] ELSE rules
          /\ main' = [main EXCEPT !.state = "Playing", !.total_collected = 0,
                                  !.event = e.event, !.frames = @ + 1]
    /\ level' = 1
    /\ rng' = SeedRng(seed)
    /\ gen' = GenLocals
    /\ obs' = NoObs
    /\ UNCHANGED <<assets, disk, screen_size, seed, scene, first>>

\* a cartridge is loaded: its rules and seed replace the session's and a run starts
LoadCartridge ==
    /\ gen.pc = "done"
    /\ main.frames < MaxFrames
    /\ main.state = "CartridgeMenu"
    /\ \E cart \in {[rules |-> [BaseRules EXCEPT !.mode = "custom"], seed |-> MaxSeed]} :
          /\ rules' = cart.rules
          /\ seed' = cart.seed
          /\ rng' = SeedRng(cart.seed)
    /\ level' = 1
    /\ main' = [main EXCEPT !.state = "Playing", !.total_collected = 0,
                            !.event = "cartridge", !.frames = @ + 1]
    /\ gen' = GenLocals
    /\ obs' = NoObs
    /\ UNCHANGED <<assets, disk, screen_size, scene, first>>

\* menu transitions that leave the scene, the level and the RNG alone
Navigate ==
    /\ gen.pc = "done"
    /\ main.frames < MaxFrames
    /\ main.event # "r_key"
    /\ \E to \in {"MainMenu", "Playing", "Paused", "Settings", "RebindingControls",
                  "PresetsMenu", "LevelEditor", "CartridgeMenu", "Help"} :
          /\ CASE main.state = "MainMenu" ->
                      to \in {"LevelEditor", "CartridgeMenu", "Settings", "Help"}
                [] main.state = "Playing" -> to = "Paused"
                [] main.state = "Paused" -> to \in {"Playing", "Settings", "MainMenu"}
                [] main.state = "Settings" ->
                      to \in {main.settings_return_to, "RebindingControls", "PresetsMenu"}
                [] main.state \in {"RebindingControls", "PresetsMenu"} -> to = "Settings"
                [] main.state \in {"LevelEditor", "CartridgeMenu", "Help"} -> to = "MainMenu"
                [] OTHER -> FALSE
          /\ main' = [main EXCEPT !.state = to,
                                  !.settings_return_to =
                                      IF to = "Settings" /\ main.state \in {"MainMenu", "Paused"}
                                      THEN main.state ELSE @,
                                  !.event = "menu", !.frames = @ + 1]
    /\ obs' = NoObs
    /\ UNCHANGED <<rules, assets, level, disk, screen_size, seed, rng, scene, gen, first>>

\* a setting that rebuilds the scene: a new control scheme, the last of six rebound
\* keys, a preset loaded from its slot
ChangeSettings ==
    /\ gen.pc = "done"
    /\ main.frames < MaxFrames
    /\ \/ /\ main.state = "Settings"
          /\ \E scheme \in {"both", "wasd", "arrows", "custom"} \ {rules.control_scheme} :
                rules' = [rules EXCEPT !.control_scheme = scheme]
          /\ main' = [main EXCEPT !.event = "settings", !.frames = @ + 1]
       \/ /\ main.state = "RebindingControls"
          /\ rules' = [rules EXCEPT !.key_left_primary = "Left", !.key_left_alt = "A",
                                    !.key_right_primary = "Right", !.key_right_alt = "D",
                                    !.key_jump_primary = "W", !.key_jump_alt = "Space"]
          /\ main' = [main EXCEPT !.state = "Settings", !.event = "settings",
                                  !.frames = @ + 1]
       \/ /\ main.state = "PresetsMenu"
          /\ rules' = BaseRules
          /\ main' = [main EXCEPT !.event = "settings", !.frames = @ + 1]
    /\ gen' = GenLocals
    /\ obs' = NoObs
    /\ UNCHANGED <<assets, level, disk, screen_size, seed, rng, scene, first>>

\* R in the Playing state rebuilds the scene; the frame goes on with scene.update
PressR ==
    /\ gen.pc = "done"
    /\ main.frames < MaxFrames
    /\ main.state = "Playing"
    /\ main.event # "r_key"
    /\ main' = [main EXCEPT !.event = "r_key"]
    /\ gen' = GenLocals
    /\ obs' = NoObs
    /\ UNCHANGED <<rules, assets, level, disk, screen_size, seed, rng, scene, first>>

\* variant: the level goes up past max_level
PlayedPastMax(s, edit, dt) ==
    LET gained == Max(s.score - scene.score, 0)
        total == SatAdd(main.total_collected, gained)
        stay == IF edit THEN "LevelEditor" ELSE "Playing"
        respawn == /\ rules.auto_respawn_collectibles
                   /\ \A i \in 1..Len(s.entities) : s.entities[i].kind # "Collectible" IN
    /\ scene' = s
    /\ IF s.player_dead
       THEN /\ main' = [main EXCEPT !.state = "GameOver", !.event = "died", !.frames = @ + 1]
            /\ UNCHANGED <<level, gen>>
       ELSE IF total >= rules.collectibles_for_level_up
       THEN /\ level' = level + 1
            /\ main' = [main EXCEPT !.state = stay, !.event = "level_up", !.frames = @ + 1,
                                    !.total_collected = total - rules.collectibles_for_level_up]
            /\ gen' = GenLocals
       ELSE IF total >= rules.collectibles_for_level_up
       THEN /\ main' = [main EXCEPT !.state = "Won", !.event = "won", !.frames = @ + 1,
                                    !.total_collected = total]
            /\ UNCHANGED <<level, gen>>
       ELSE /\ main' = [main EXCEPT !.state = stay, !.frames = @ + 1,
                                    !.event = IF respawn THEN "respawn" ELSE "tick",
                                    !.total_collected = total]
            /\ gen' = IF respawn THEN [GenLocals EXCEPT !.pc = "collectibles", !.call = 4]
                      ELSE gen
            /\ UNCHANGED level
    /\ obs' = [kind |-> "frame", dt |-> dt,
               turned |-> LET was == SelectSeq(scene.entities, LAMBDA e : e.kind = "Enemy")
                              now == SelectSeq(s.entities, LAMBDA e : e.kind = "Enemy") IN
                          {k \in 1..Len(was) : /\ was[k].velocity.x # 0
                                               /\ now[k].velocity.x = -was[k].velocity.x}]
    /\ UNCHANGED <<rules, assets, disk, screen_size, seed, rng, first>>

\* the Playing state after scene.update has returned s: game over, level-up, win or
\* respawn of the collectibles; edit is F2 in custom mode
Played(s, edit, dt) ==
    LET gained == Max(s.score - scene.score, 0)
        total == SatAdd(main.total_collected, gained)
        stay == IF edit THEN "LevelEditor" ELSE "Playing"
        respawn == /\ rules.auto_respawn_collectibles
                   /\ \A i \in 1..Len(s.entities) : s.entities[i].kind # "Collectible" IN
    /\ scene' = s
    /\ IF s.player_dead
       THEN /\ main' = [main EXCEPT !.state = "GameOver", !.event = "died", !.frames = @ + 1]
            /\ UNCHANGED <<level, gen>>
       ELSE IF total >= rules.collectibles_for_level_up /\ level < rules.max_level
       THEN /\ level' = level + 1
            /\ main' = [main EXCEPT !.state = stay, !.event = "level_up", !.frames = @ + 1,
                                    !.total_collected = total - rules.collectibles_for_level_up]
            /\ gen' = GenLocals
       ELSE IF total >= rules.collectibles_for_level_up
       THEN /\ main' = [main EXCEPT !.state = "Won", !.event = "won", !.frames = @ + 1,
                                    !.total_collected = total]
            /\ UNCHANGED <<level, gen>>
       ELSE /\ main' = [main EXCEPT !.state = stay, !.frames = @ + 1,
                                    !.event = IF respawn THEN "respawn" ELSE "tick",
                                    !.total_collected = total]
            /\ gen' = IF respawn THEN [GenLocals EXCEPT !.pc = "collectibles", !.call = 4]
                      ELSE gen
            /\ UNCHANGED level
    /\ obs' = [kind |-> "frame", dt |-> dt,
               turned |-> LET was == SelectSeq(scene.entities, LAMBDA e : e.kind = "Enemy")
                              now == SelectSeq(s.entities, LAMBDA e : e.kind = "Enemy") IN
                          {k \in 1..Len(was) : /\ was[k].velocity.x # 0
                                               /\ now[k].velocity.x = -was[k].velocity.x}]
    /\ UNCHANGED <<rules, assets, disk, screen_size, seed, rng, first>>

\* one frame of the Playing state
PlayFrame ==
    /\ gen.pc = "done"
    /\ main.frames < MaxFrames
    /\ main.state = "Playing"
    /\ \E dt \in {1, MaxDt}, kb \in KeyStates,
          edit \in {FALSE, to_lowercase(rules.mode) = "custom"} :
          Played(update(scene, dt, kb).scene, edit, dt)

MainNext ==
    \/ GenStart
    \/ GenCustom
    \/ GenRow
    \/ GenGround
    \/ GenPlayer
    \/ GenEnemies
    \/ SpawnStart
    \/ SpawnClusterStep
    \/ StartRun
    \/ LoadCartridge
    \/ Navigate
    \/ ChangeSettings
    \/ PressR
    \/ PlayFrame

SpecMain == MainInit /\ [][MainNext]_vars

-----------------------------------------------------------------------------
(* Properties of the simulation (SpecSim)                                  *)

\* C1: after construction and after every tick, 0 <= player_health <= player_max_health,
\* player_max_health is at least 1 and the start health lies in [1, player_max_health]
C1_HealthWithinBounds ==
    /\ scene.player_max_health >= 1
    /\ 0 <= scene.player_health
    /\ scene.player_health <= scene.player_max_health
    /\ (obs.kind = "new" => scene.player_health >= 1)

\* a pickup heals a damaged player by more than the missing health and the cap applies
C1_HealCappedAfterDamage ==
    /\ obs.kind = "tick"
    /\ obs.collected_health > 0
    /\ 0 < obs.health_before
    /\ obs.health_before < scene.player_max_health
    /\ obs.health_before + obs.collected_health > scene.player_max_health
    /\ scene.player_health = scene.player_max_health

\* C2: between two ticks that apply damage at least hit_invincibility_duration of simulated
\* time passes (the dt of the ticks after the first up to and including the second); no
\* damage is applied while hit_timer is positive after its decrement, and health only
\* drops in a tick that applies damage
C2_DamageSpacing ==
    obs.kind = "tick" =>
        /\ (obs.timer_after > 0 => ~obs.damaged)
        /\ ((obs.damaged /\ obs.gap >= 0) => obs.gap >= scene.hit_invincibility_duration)
        /\ (scene.player_health < obs.health_before => obs.damaged)

\* a second damage tick exactly hit_invincibility_duration after the first
C2_SecondHitWhenTimerRanOut ==
    /\ obs.kind = "tick"
    /\ obs.damaged
    /\ scene.hit_invincibility_duration >= 2
    /\ obs.gap = scene.hit_invincibility_duration

\* C3: in a tick where the invincibility timer is not running and the player's box
\* overlaps both an enemy and a projectile, health drops by
\* enemy_contact_damage + projectile_damage (stopping at 0) and the timer is started
C3_HazardsAddUp ==
    (/\ obs.kind = "tick"
     /\ obs.timer_after <= 0
     /\ obs.health_before > 0
     /\ obs.collected_health = 0
     /\ obs.overlap_enemy
     /\ obs.overlap_projectile)
    => /\ obs.damaged
       /\ scene.player_health =
             Max(obs.health_before - (scene.enemy_contact_damage + scene.projectile_damage), 0)
       /\ scene.hit_timer = scene.hit_invincibility_duration

\* the player's box spans the platform horizontally and its bottom edge is on the top edge
RestsOn(entity, platform, scale) ==
    LET r == entity_rect(entity, scale)
        plat == platform_rect(platform, scale) IN
    /\ ~platform.moving
    /\ r.y + r.h = plat.y
    /\ r.x <= plat.x + plat.w
    /\ r.x + r.w >= plat.x

\* the player's box is horizontally over the platform
IsOver(entity, platform, scale) ==
    LET r == entity_rect(entity, scale)
        plat == platform_rect(platform, scale) IN
    r.x <= plat.x + plat.w /\ r.x + r.w >= plat.x

\* C5: a player at rest on the top edge of a non-moving platform, with velocity.y = 0, no
\* jump pressed and staying over the platform, has the same position.y and velocity.y = 0
\* after the tick, for every gravity >= 0 and every dt > 0
C5_RestingContactHolds ==
    [][\A i \in 1..Len(scene.platforms) :
          LET before == FindPlayer(scene.entities)
              after == FindPlayer(scene'.entities) IN
          (/\ obs'.kind = "tick"
           /\ before.some
           /\ after.some
           /\ before.v.velocity.y = 0
           /\ RestsOn(before.v, scene.platforms[i], scene.sprite_scale)
           /\ ~JumpPressed(scene.input, obs'.kb)
           /\ IsOver(after.v, scene.platforms[i], scene.sprite_scale))
          => /\ after.v.position.y = before.v.position.y
             /\ after.v.velocity.y = 0]_vars

-----------------------------------------------------------------------------
(* Properties of the generator (SpecGen)                                   *)

\* no sprite of the kind is in the catalog
Missing(kind) == \A i \in 1..Len(assets.sprites) : assets.sprites[i].kind # kind

\* the scene holds an entity of the kind
HasEntity(kind) == \E i \in 1..Len(scene.entities) : scene.entities[i].kind = kind

\* custom mode with an authored level that loads and applies
AuthoredApplies ==
    /\ eq_ignore_ascii_case(rules.mode, "custom")
    /\ apply_custom_level(scene, assets, rules, disk).ok

C6_ClusterWithinMinAndBudget ==
    obs.kind = "cluster" =>
        /\ gen.sum <= gen.total
        /\ obs.size >= ClusterRange(rules).lo
        /\ obs.size <= Min(ClusterRange(rules).hi, obs.remaining_before)

\* C6: in every iteration of the cluster loop the sizes drawn so far sum to at most the
\* total, and the cluster size lies in
\* [min(cluster_min, remaining), min(cluster_max, remaining)] and is at least 1
C6_ClusterWithinBudget ==
    obs.kind = "cluster" =>
        /\ gen.sum <= gen.total
        /\ gen.sum + gen.remaining = gen.total
        /\ obs.size >= 1
        /\ obs.size >= Min(ClusterRange(rules).lo, obs.remaining_before)
        /\ obs.size <= Min(ClusterRange(rules).hi, obs.remaining_before)

\* the last cluster of a budget that is smaller than cluster_min
C6_LastClusterBelowMin ==
    /\ obs.kind = "cluster"
    /\ obs.size < ClusterRange(rules).lo
    /\ obs.size = obs.remaining_before
    /\ gen.sum = gen.total

\* the level is a collect_fest boss level
IsCollectFest ==
    /\ rules.boss_level_interval > 0
    /\ level > 0
    /\ level % rules.boss_level_interval = 0
    /\ rules.boss_mode = "collect_fest"

\* C7 as stated: on a collect_fest boss level the returned scene holds no Enemy and the
\* collectible total is round(drawn total * boss_collectibles_multiplier)
C7_CollectFestAsStated ==
    IsCollectFest =>
        /\ (gen.pc = "done" => ~HasEntity("Enemy"))
        /\ (obs.kind = "total" =>
               gen.total = RoundHalf(obs.base_total * rules.boss_collectibles_multiplier))

\* C7: on a collect_fest boss level that is generated procedurally (no authored level is
\* applied) the returned scene holds no Enemy and the collectible total is
\* round(drawn total * max(boss_collectibles_multiplier, 1))
C7_CollectFestProcedural ==
    (IsCollectFest /\ ~AuthoredApplies) =>
        /\ (gen.pc = "done" => ~HasEntity("Enemy"))
        /\ (obs.kind = "total" =>
               gen.total = RoundHalf(obs.base_total * Max(rules.boss_collectibles_multiplier, 2)))

\* a collect_fest level with enemies enabled and a multiplier below 1 has been generated
C7_CollectFestGenerated ==
    /\ IsCollectFest
    /\ ~AuthoredApplies
    /\ rules.enemy_enabled
    /\ rules.boss_collectibles_multiplier < 2
    /\ gen.pc = "done"
    /\ gen.total >= 1
    /\ HasEntity("Collectible")

\* C8: every integer range the generator draws from has lower bound <= upper bound and
\* generation never fails on an empty range
C8_RangesNotEmpty ==
    /\ \A i \in 1..Len(obs.ranges) : obs.ranges[i].lo <= obs.ranges[i].hi
    /\ gen.pc # "panic"

\* C9: in custom mode with an authored level that is missing, unparsable or cannot be
\* applied, generate_scene returns the scene and leaves the RNG as procedural generation
\* does for the same inputs, and the failed attempt leaves nothing in the scene
C9_FallbackIsProcedural ==
    /\ (obs.kind = "fallback" => scene.entities = <<>> /\ scene.platforms = <<>>)
    /\ ((gen.call = 3 /\ gen.pc = "done" /\ ~AuthoredApplies) => first = Some(Result))

\* a custom-mode run whose authored level loads but cannot be applied has been compared
\* with its procedural reference
C9_FallbackCompared ==
    /\ gen.call = 3
    /\ gen.pc = "done"
    /\ disk.state = "ok"
    /\ ~AuthoredApplies
    /\ first = Some(Result)
    /\ scene.platforms # <<>>

\* nothing of a category without sprites is in the scene
NothingOfMissing ==
    /\ (Missing("Background") => scene.background = None)
    /\ (Missing("Platform") => scene.platforms = <<>>)
    /\ (Missing("Player") => ~HasEntity("Player"))
    /\ (Missing("Enemy") => ~HasEntity("Enemy"))
    /\ (Missing("Collectible") => ~HasEntity("Collectible"))

\* C10: whatever sprite categories are empty, no step fails for want of a sprite, the
\* returned scene holds nothing of an empty category, and spawn_collectibles leaves the
\* scene and the RNG alone when the scene has no platforms
C10_EmptyCategoriesSkipped ==
    [][/\ (gen'.pc = "done" => NothingOfMissing')
       /\ (gen'.pc = "panic" => (gen'.panic = "empty_range" /\ ~Missing("Platform")))
       /\ ((gen.pc = "collectibles" /\ scene.platforms = <<>>)
              => (scene' = scene /\ rng' = rng /\ gen'.pc = "done"))]_vars

\* generation has ended with enemies and background missing and collectibles placed
C10_GeneratedWithoutEnemySprites ==
    /\ gen.pc = "done"
    /\ Missing("Enemy")
    /\ Missing("Background")
    /\ ~Missing("Platform")
    /\ HasEntity("Player")
    /\ HasEntity("Collectible")

\* the entities of the given kind, in scene order
OfKind(entities, kind) == SelectSeq(entities, LAMBDA e : e.kind = kind)

\* the scene has one player when the catalog has a player sprite and none otherwise
PlayerCountRight(entities) ==
    Len(OfKind(entities, "Player")) = IF Missing("Player") THEN 0 ELSE 1

\* C11: every scene generate_scene returns, procedural or authored, holds exactly one
\* Player entity when the catalog has a player sprite and none otherwise; a procedurally
\* generated player stands at (world_width / 2, 0) with zero velocity
C11_OnePlayerAtCentre ==
    gen.pc = "done" =>
        /\ PlayerCountRight(scene.entities)
        /\ (obs.kind # "authored" =>
               \A i \in 1..Len(scene.entities) :
                  scene.entities[i].kind = "Player" =>
                     /\ scene.entities[i].position = Vec2(scene.world_width \div 2, 0)
                     /\ scene.entities[i].velocity = Vec2Zero)

\* an authored scene with its one player off the centre has been followed by the
\* procedural scene for the same inputs, with its one player at the centre
C11_BothPathsOnePlayer ==
    /\ gen.call = 3
    /\ gen.pc = "done"
    /\ first.some
    /\ Len(OfKind(first.v.entities, "Player")) = 1
    /\ OfKind(first.v.entities, "Player")[1].position # Vec2(scene.world_width \div 2, 0)
    /\ Len(OfKind(scene.entities, "Player")) = 1
    /\ OfKind(scene.entities, "Player")[1].position = Vec2(scene.world_width \div 2, 0)

\* the rules of the single-row scenario: one row of exactly n platforms, n within the
\* cap the minimum gap allows, no ground row, no enemies, no collectibles, the default
\* densities, and procedural generation at the default sprite scale
SingleRow ==
    /\ rules.platform_rows = 1
    /\ rules.min_platforms_per_row = rules.max_platforms_per_row
    /\ rules.min_platforms_per_row >= 1
    /\ rules.min_platforms_per_row <= MaxByGap(rules, screen_size.x)
    /\ ~rules.ground_row_enabled
    /\ ~rules.enemy_enabled
    /\ ~rules.collectible_enabled
    /\ rules.platform_density_bottom = BaseRules.platform_density_bottom
    /\ rules.platform_density_top = BaseRules.platform_density_top
    /\ rules.mode = BaseRules.mode
    /\ rules.sprite_scale = BaseRules.sprite_scale
    /\ ~Missing("Platform")
    /\ ~Missing("Player")

\* C12: with platform and player sprites, one platform row, min = max = n platforms per
\* row (n within the gap cap), no ground row, no enemies, no collectibles and the default
\* densities, generate_scene returns, for every seed, exactly n platforms at one height,
\* no enemy, no collectible and one player at the horizontal centre with y = 0
C12_SingleRowScenario ==
    SingleRow =>
        /\ gen.pc # "panic"
        /\ (gen.pc = "done" =>
               /\ Len(scene.platforms) = rules.min_platforms_per_row
               /\ \A i, j \in 1..Len(scene.platforms) :
                      scene.platforms[i].position.y = scene.platforms[j].position.y
               /\ ~HasEntity("Enemy")
               /\ ~HasEntity("Collectible")
               /\ Len(scene.entities) = 1
               /\ scene.entities[1].kind = "Player"
               /\ scene.entities[1].position = Vec2(screen_size.x \div 2, 0))

\* the scenario has been generated with two platforms in its row
C12_TwoInOneRow ==
    /\ SingleRow
    /\ gen.pc = "done"
    /\ rules.min_platforms_per_row = 2
    /\ Len(scene.platforms) = 2
    /\ Len(scene.entities) = 1

-----------------------------------------------------------------------------
(* Properties of particles, platforms and entities over ticks (SpecSim)    *)

\* the lifetime a particle of the given speed was emitted with
EmittedLifetime(speed) ==
    IF speed = JumpParticleSpeed THEN JumpParticleLifetime
    ELSE IF speed = HitParticleSpeed THEN HitParticleLifetime
    ELSE PickupParticleLifetime

\* the particles that outlive a tick of length dt, as the tick leaves them
Survivors(particles, dt) ==
    LET kept == SelectSeq(particles, LAMBDA p : p.lifetime > dt) IN
    [i \in 1..Len(kept) |-> [kept[i] EXCEPT !.age = @ + dt, !.lifetime = @ - dt]]

\* C13: with particles enabled, a tick subtracts dt from the lifetime of the particles it
\* started with, drops those at lifetime <= 0 and appends the new ones at their full
\* lifetime; so every particle held after a tick has lifetime > 0, and none is held once
\* the dt accumulated since its emission reaches the lifetime it was emitted with
C13_ParticlesExpire ==
    [][scene.particles_enabled =>
          LET old == Survivors(scene.particles, obs'.dt)
              new == scene'.particles IN
          /\ Len(new) >= Len(old)
          /\ SubSeq(new, 1, Len(old)) = old
          /\ \A i \in (Len(old) + 1)..Len(new) :
                 new[i].age = 0 /\ new[i].lifetime = EmittedLifetime(new[i].speed)
          /\ \A i \in 1..Len(new) :
                 /\ new[i].lifetime > 0
                 /\ new[i].age + new[i].lifetime = EmittedLifetime(new[i].speed)]_vars

\* the particles of a hit taken in an earlier tick have all expired
C13_HitParticlesGone ==
    /\ scene.particles_enabled
    /\ scene.hit_particle_count > 0
    /\ obs.kind = "tick"
    /\ obs.since > 0
    /\ scene.particles = <<>>

\* C14: with particles disabled the scene holds no particle after any tick, whether or
\* not the tick contains a jump, a damage event or a pickup
C14_NoParticlesWhenDisabled ==
    ~rules.particles_enabled => scene.particles = <<>>

\* a tick with particles disabled in which the player jumped and was hurt
C14_JumpAndHitUnseen ==
    /\ ~rules.particles_enabled
    /\ obs.kind = "tick"
    /\ obs.damaged
    /\ JumpPressed(scene.input, obs.kb)
    /\ FindPlayer(scene.entities).some
    /\ FindPlayer(scene.entities).v.velocity.y < 0
    /\ scene.jump_particle_count > 0
    /\ scene.hit_particle_count > 0
    /\ scene.particles = <<>>

\* largest particle count of a burst
MaxCount == 3

\* the burst appended to out is count particles at origin with the given lifetime, the
\* i-th at angle angle_start + i * (angle_end - angle_start) / count
IsBurst(res, out, origin, count, angle_start, angle_end, lifetime) ==
    /\ Len(res) = Len(out) + count
    /\ SubSeq(res, 1, Len(out)) = out
    /\ \A i \in 0..(count - 1) :
          LET p == res[Len(out) + i + 1] IN
          /\ p.origin = origin
          /\ p.lifetime = lifetime
          /\ p.age = 0
          /\ p.angle_num * count = (angle_start * count + i * (angle_end - angle_start)) * p.angle_den
          /\ (angle_start # angle_end => p.angle_num # angle_end * p.angle_den)

\* C15: emit_particles appends exactly count particles to the list it is given and leaves
\* the particles already in it alone (nothing for count = 0); the i-th new particle starts
\* at origin with the given lifetime at angle angle_start + i * (angle_end - angle_start)
\* / count, so no particle is sent at angle_end
C15_EmitContract ==
    \A count \in 0..MaxCount, angle_start \in 0..2, angle_end \in {2, 4},
       lifetime \in {HitParticleLifetime} :
       LET origin == Vec2(scene.score, scene.player_health) IN
       IsBurst(emit_particles(scene.particles, origin, count, angle_start, angle_end,
                              PickupParticleSpeed, lifetime),
               scene.particles, origin, count, angle_start, angle_end, lifetime)

\* the scene holds the second particle of a jump fan, sent three quarter turns round, and
\* a further burst is appended to a list that is not empty
C15_FanInScene ==
    /\ \E i \in 1..Len(scene.particles) :
          /\ scene.particles[i].speed = JumpParticleSpeed
          /\ scene.particles[i].angle_num = 3 * scene.particles[i].angle_den
    /\ Len(emit_particles(scene.particles, Vec2Zero, MaxCount, 0, 4, HitParticleSpeed,
                          HitParticleLifetime)) = Len(scene.particles) + MaxCount

\* the scene as generation left it, before the first tick
AtGeneration ==
    apply_custom_level(SceneNew(rules, EffectiveEnemies(rules, level).speed,
                                EffectiveEnemies(rules, level).damage,
                                build_input_config(rules), screen_size.x, screen_size.y),
                       assets, rules, disk).scene

\* C16: no tick adds or removes a platform or changes a platform's base_position, phase,
\* moving or vertical flag; a platform that is not moving, and every platform when moving
\* platforms are disabled, stays where generation put it
C16_PlatformsStay ==
    LET g == AtGeneration.platforms IN
    /\ Len(scene.platforms) = Len(g)
    /\ \A i \in 1..Len(g) :
          /\ scene.platforms[i].base_position = g[i].base_position
          /\ scene.platforms[i].phase = g[i].phase
          /\ scene.platforms[i].moving = g[i].moving
          /\ scene.platforms[i].vertical = g[i].vertical
          /\ scene.platforms[i].texture = g[i].texture
          /\ ((~g[i].moving \/ ~rules.moving_platform_enabled)
                 => scene.platforms[i].position = g[i].position)

\* a tick has carried the moving platforms away, one sideways and one upwards or
\* downwards, and left the fixed one in place
C16_MovingPlatformsMoved ==
    /\ obs.kind = "tick"
    /\ rules.moving_platform_enabled
    /\ Len(scene.platforms) = 3
    /\ scene.platforms[1].position = scene.platforms[1].base_position
    /\ scene.platforms[2].position.x # scene.platforms[2].base_position.x
    /\ scene.platforms[3].position.y # scene.platforms[3].base_position.y

EnemyInRange(entities, pos, range) ==
    \E i \in 1..Len(entities) :
       LET tx == pos.x - entities[i].position.x
           ty == pos.y - entities[i].position.y IN
       /\ entities[i].kind = "Enemy"
       /\ tx * tx + ty * ty > 0
       /\ range >= 0
       /\ tx * tx + ty * ty <= range * range

\* C20: a tick spawns at most one projectile, even with several enemies within range of
\* the player while the shared shoot timer is 0, and spawns one only with shooting
\* enabled, a positive interval, the timer at 0, a player in the scene and an enemy at a
\* distance in (0, enemy_shoot_range] from the player
C20_OneShotPerTick ==
    [][obs'.kind = "tick" =>
          /\ obs'.spawned <= 1
          /\ (obs'.spawned > 0 =>
                 /\ scene.enemy_shoot_enabled
                 /\ scene.enemy_shoot_interval > 0
                 /\ DecTimer(scene.enemy_shoot_timer, obs'.dt) = 0
                 /\ FindPlayer(scene.entities).some
                 /\ EnemyInRange(scene'.entities, FindPlayer(scene.entities).v.position,
                                 scene.enemy_shoot_range))]_vars

\* kind and sprite of the players and enemies of an entity list, in order
Cast(entities) ==
    LET es == SelectSeq(entities, LAMBDA e : e.kind \in {"Player", "Enemy"}) IN
    [i \in 1..Len(es) |-> [kind |-> es[i].kind, texture |-> es[i].texture]]

\* the box of the first player of an entity list
BoxOfPlayer(entities, scale) == PlayerRect(FindPlayer(entities), scale)

\* the entity does not touch the player of the entity list
Clear(e, entities, scale) ==
    ~FindPlayer(entities).some
    \/ ~Overlaps(entity_rect(e, scale), BoxOfPlayer(entities, scale))

\* C17: a tick changes no entity's kind, adds only projectiles and removes only
\* projectiles (out of bounds or touching the player) and collectibles (touching the
\* player); the player and the enemies of the scene stay, so the number of players never
\* changes
C17_EntitiesPersist ==
    [][LET old == scene.entities
           new == scene'.entities
           flown == [i \in 1..Len(OfKind(old, "Projectile")) |->
                        UpdateProjectile(OfKind(old, "Projectile")[i], obs'.dt).entity] IN
       /\ \A i \in 1..Len(new) :
              new[i].kind \in {"Player", "Enemy", "Collectible", "Projectile"}
       /\ Cast(new) = Cast(old)
       /\ Len(OfKind(new, "Player")) = Len(OfKind(AtGeneration.entities, "Player"))
       /\ (~scene.collectible_bob_enabled =>
              OfKind(new, "Collectible") =
                 SelectSeq(OfKind(old, "Collectible"),
                           LAMBDA e : Clear(e, new, scene.sprite_scale)))
       /\ \A i \in 1..Len(flown) :
              (/\ InCullBounds(flown[i], scene.world_width, scene.world_height)
               /\ Clear(flown[i], new, scene.sprite_scale))
              => \E j \in 1..Len(new) : new[j] = flown[i]
       /\ Len(OfKind(new, "Projectile")) <= Len(OfKind(old, "Projectile")) + obs'.spawned
      ]_vars

\* after a tick a collectible is gone and a projectile is in flight, with the player and
\* the enemy still in the scene
C17_PickupAndShotSeen ==
    /\ obs.kind = "tick"
    /\ Len(OfKind(scene.entities, "Collectible")) <
          Len(OfKind(AtGeneration.entities, "Collectible"))
    /\ OfKind(scene.entities, "Projectile") # <<>>
    /\ Len(OfKind(scene.entities, "Player")) = 1
    /\ OfKind(scene.entities, "Enemy") # <<>>

-----------------------------------------------------------------------------
(* Properties of the main loop (SpecMain)                                  *)

\* C18: every transition that starts a brand-new run (Play, Custom Levels, a cartridge,
\* Enter on GameOver or Won) sets level to 1 and reseeds the level RNG from the seed before
\* the scene is generated; level-up, the R key and the settings that rebuild the scene
\* generate from the RNG stream as it stands
C18_NewRunsReseed ==
    [][/\ (/\ main'.frames # main.frames
           /\ main'.event \in {"play", "custom", "cartridge", "game_over_enter", "won_enter"})
          => (level' = 1 /\ rng' = SeedRng(seed') /\ gen'.pc = "start")
       /\ (/\ main' # main
           /\ main'.event \in {"level_up", "r_key", "settings"})
          => (rng' = rng /\ gen'.pc = "start" /\ seed' = seed
              /\ level' = IF main'.event = "level_up" THEN level + 1 ELSE level)]_vars

\* a run has ended and Enter on GameOver or Won has started a new run at level 1 with
\* the RNG reseeded
C18_RunRestarted ==
    /\ main.event \in {"game_over_enter", "won_enter"}
    /\ gen.pc = "start"
    /\ level = 1
    /\ rng = SeedRng(seed)
    /\ main.frames >= 3

\* C21: an enemy gets the jump impulse in a tick only if jumping is enabled, it has the
\* jumping flag, the interval is positive, the shared timer has run down to 0 and it
\* stands on ground after its move; a tick with a jump leaves the timer at the interval,
\* and two ticks with jumps are at least the interval of simulated time apart
EnemyRank(entities, i) == Cardinality({j \in 1..i : entities[j].kind = "Enemy"})

C21_EnemyJumpThrottle ==
    [][obs'.kind = "tick" =>
         /\ \A i \in obs'.enemy_jumped :
               LET enemy == OfKind(scene'.entities, "Enemy")[EnemyRank(scene.entities, i)] IN
               /\ scene.entities[i].kind = "Enemy"
               /\ scene.enemy_jump_enabled
               /\ scene.entities[i].jumping
               /\ scene.enemy_jump_interval > 0
               /\ DecTimer(scene.enemy_jump_timer, obs'.dt) = 0
               /\ is_on_ground(enemy, scene'.platforms, scene.sprite_scale)
               /\ enemy.velocity.y = -scene.enemy_jump_strength
         /\ obs'.enemy_jumped # {} => scene'.enemy_jump_timer = scene.enemy_jump_interval
         /\ obs'.jump_gap >= 0 => obs'.jump_gap >= scene.enemy_jump_interval]_vars

\* two enemies jumped in one tick, one interval after an earlier jump
C21_JumpedAgain ==
    /\ obs.kind = "tick"
    /\ Cardinality(obs.enemy_jumped) >= 2
    /\ obs.jump_gap = scene.enemy_jump_interval
    /\ scene.enemy_jump_timer = scene.enemy_jump_interval

-----------------------------------------------------------------------------
(* Properties of landing resolution, checked on the player of every scene   *)
(* reached within one tick, moved down by up to one unit, with each sign of *)
(* the vertical velocity, over the scene's platforms and over stacks of one *)
(* or two platforms                                                         *)

LandingInputs ==
    IF obs.ticks > 1 \/ ~FindPlayer(scene.entities).some THEN {}
    ELSE LET player == FindPlayer(scene.entities).v
             at(y) == [scene.platforms[1] EXCEPT !.position = Vec2(player.position.x, y)]
             layouts == {scene.platforms}
                        \cup {<<at(a)>> : a \in {6, 10, 12, 13}}
                        \cup {<<at(a), at(b)>> : a, b \in {6, 10, 12, 13}} IN
         {[entity |-> [player EXCEPT !.position.y = @ + d, !.velocity.y = vy],
           platforms |-> l] :
             d \in {0, 1}, vy \in {-1, 0, 1}, l \in layouts}

\* the platforms of the input that the box overlaps
HitBy(rect, in, scale) ==
    {i \in 1..Len(in.platforms) : Overlaps(rect, platform_rect(in.platforms[i], scale))}

\* the entity's box with its bottom edge on the top edge of the platform
SnappedTo(entity, platform, scale) ==
    LET r == entity_rect(entity, scale) IN
    [r EXCEPT !.y = platform_rect(platform, scale).y - r.h]

\* out is in.entity landed: unchanged when rising, at rest or clear of the platforms,
\* else stopped with its bottom edge on the top edge of a platform that its box
\* overlapped, or (chained) that its box overlapped once snapped to an earlier platform
Landed(in, out, scale, chained) ==
    LET r0 == entity_rect(in.entity, scale)
        r1 == entity_rect(out, scale) IN
    IF in.entity.velocity.y <= 0 \/ HitBy(r0, in, scale) = {}
    THEN out = in.entity
    ELSE /\ out = [in.entity EXCEPT !.position.y = out.position.y, !.velocity.y = 0]
         /\ \E i \in 1..Len(in.platforms) :
               /\ r1.y + r1.h = platform_rect(in.platforms[i], scale).y
               /\ \/ i \in HitBy(r0, in, scale)
                  \/ /\ chained
                     /\ \E j \in 1..(i - 1) :
                           i \in HitBy(SnappedTo(in.entity, in.platforms[j], scale), in, scale)

\* C22 as stated: resolve_platform_collisions leaves the entity unchanged when
\* velocity.y <= 0 or its box overlaps no platform; otherwise velocity.y is 0 and the
\* bottom edge is on the top edge of a platform the box overlapped, x and velocity.x kept
C22_LandsOnOverlapped ==
    \A in \in LandingInputs :
       Landed(in, resolve_platform_collisions(in.entity, in.platforms, scene.sprite_scale),
              scene.sprite_scale, FALSE)

\* C22, amended: as above, but the platform landed on is one the box overlapped at the
\* start or overlapped after the snap to an earlier platform of the list
C22_LandsOnReached ==
    \A in \in LandingInputs :
       Landed(in, resolve_platform_collisions(in.entity, in.platforms, scene.sprite_scale),
              scene.sprite_scale, TRUE)

\* a falling player ends on a platform that its box did not overlap at the start
C22_LiftedOntoNext ==
    \E in \in LandingInputs :
       LET out == resolve_platform_collisions(in.entity, in.platforms, scene.sprite_scale) IN
       /\ in.entity.velocity.y > 0
       /\ out.velocity.y = 0
       /\ out.position.y < in.entity.position.y
       /\ ~Landed(in, out, scene.sprite_scale, FALSE)

\* the platforms of the input that the entity's box overlaps when the call starts
HitAtStart(in, scale) == HitBy(entity_rect(in.entity, scale), in, scale)

\* the last member of a set of list indices that is not empty
Last(indices) == CHOOSE i \in indices : \A j \in indices : j <= i

\* C23 as stated: a falling entity that overlaps several platforms when landing
\* resolution starts ends with its bottom edge on the top edge of the last of those
\* platforms in the list
C23_LastOverlappedWins ==
    \A in \in LandingInputs :
       LET out == resolve_platform_collisions(in.entity, in.platforms, scene.sprite_scale)
           r1 == entity_rect(out, scene.sprite_scale) IN
       in.entity.velocity.y > 0 /\ Cardinality(HitAtStart(in, scene.sprite_scale)) >= 2 =>
           r1.y + r1.h = platform_rect(in.platforms[Last(HitAtStart(in, scene.sprite_scale))],
                                       scene.sprite_scale).y

\* C23, amended: each platform of the list is tested against the box as the earlier snaps
\* left it, so a falling entity that overlaps several platforms at the start ends with its
\* bottom edge on the top edge of the last platform in the list that overlaps its box as
\* it ends up
C23_LastReachedWins ==
    \A in \in LandingInputs :
       LET out == resolve_platform_collisions(in.entity, in.platforms, scene.sprite_scale)
           r1 == entity_rect(out, scene.sprite_scale) IN
       in.entity.velocity.y > 0 /\ Cardinality(HitAtStart(in, scene.sprite_scale)) >= 2 =>
           /\ HitBy(r1, in, scene.sprite_scale) # {}
           /\ r1.y + r1.h = platform_rect(in.platforms[Last(HitBy(r1, in, scene.sprite_scale))],
                                          scene.sprite_scale).y

\* the snap to the first of two platforms overlapped at the start lifts the player clear
\* of the second, which gives no snap
C23_LiftedClearOfLast ==
    \E in \in LandingInputs :
       LET out == resolve_platform_collisions(in.entity, in.platforms, scene.sprite_scale)
           r1 == entity_rect(out, scene.sprite_scale) IN
       /\ in.entity.velocity.y > 0
       /\ HitAtStart(in, scene.sprite_scale) = {1, 2}
       /\ HitBy(r1, in, scene.sprite_scale) = {1}
       /\ r1.y + r1.h = platform_rect(in.platforms[1], scene.sprite_scale).y

-----------------------------------------------------------------------------
(* Properties of enemy movement over ticks (SpecSim)                        *)

\* C24: in circle mode every enemy is, at the end of every tick, at the orbit point
\* base_position + enemy_circle_radius * (cos a, sin a), a = time * enemy_circle_speed
\* + phase, whatever the gravity scale and the platforms
C24_CirclingOnOrbit ==
    obs.kind = "tick" /\ EnemyMode(scene) = "circle" =>
        \A i \in 1..Len(scene.entities) :
           LET e == scene.entities[i]
               a == scene.time * scene.enemy_circle_speed + e.phase IN
           e.kind = "Enemy" =>
               e.position = Vec2(e.base_position.x + Cos4(a) * scene.enemy_circle_radius,
                                 e.base_position.y + Sin4(a) * scene.enemy_circle_radius)

\* how far the box of an entity reaches past the left or right edge of the world
PastEdge(e, s) ==
    Max(Max(HalfW(e, s.sprite_scale) - e.position.x,
            e.position.x + HalfW(e, s.sprite_scale) - s.world_width), 0)

\* C25: in patrol mode with a constant dt the box of a generated enemy is never more
\* than |velocity.x| * dt past the left or right edge of the world, no enemy turns round
\* in two consecutive ticks, and a tick after a turn ends with the enemy inside the world
C25_PatrolStaysInWorld ==
    [][obs'.kind = "frame" /\ to_lowercase(rules.mode) # "custom"
           /\ EnemyMode(scene) = "patrol" =>
         \A k \in 1..Len(OfKind(scene'.entities, "Enemy")) :
            LET e == OfKind(scene'.entities, "Enemy")[k] IN
            /\ PastEdge(e, scene') <= Abs(e.velocity.x) * obs'.dt
            /\ obs.kind = "frame" /\ obs.dt = obs'.dt /\ k \in obs.turned =>
                  /\ k \notin obs'.turned
                  /\ PastEdge(e, scene') = 0]_vars

-----------------------------------------------------------------------------
(* Properties of the player over ticks (SpecSim)                            *)

\* C26: after construction and after every tick player_dead is true exactly when
\* player_health is 0, and a tick of a scene whose player_health is 0 leaves it at 0 with
\* player_dead set, whatever the player overlaps in that tick
C26_DeadIffNoHealth ==
    /\ scene.player_dead <=> scene.player_health = 0
    /\ AtGeneration.player_health > 0 /\ ~AtGeneration.player_dead
    /\ scene.player_health = 0 =>
          \A dt \in {1, MaxDt}, kb \in KeyStates :
             LET s == update(scene, dt, kb).scene IN
             s.player_health = 0 /\ s.player_dead

\* the player is dead and a further tick takes it onto a health pickup
C26_DeadOnPickup ==
    /\ scene.player_dead
    /\ scene.player_health = 0
    /\ \E dt \in {1, MaxDt}, kb \in KeyStates : update(scene, dt, kb).collected_health > 0

\* C27: within a tick damage comes before healing: a player whose health is taken to 0
\* by the damage of a tick ends the tick with health 0 and player_dead set, whatever
\* pickups it overlaps, while those pickups are removed and their value is scored; damage
\* that leaves health is subtracted before the pickups heal up to the maximum
C27_DamageBeforeHealing ==
    [][obs'.kind = "tick" /\ obs'.damaged =>
         /\ scene'.score = SatAdd(scene.score, obs'.collected_value)
         /\ \A i \in 1..Len(scene'.entities) :
               scene'.entities[i].kind = "Collectible" =>
                   ~Overlaps(entity_rect(scene'.entities[i], scene.sprite_scale),
                             PlayerRect(FindPlayer(scene'.entities), scene.sprite_scale))
         /\ IF obs'.damage >= scene.player_health
            THEN scene'.player_health = 0 /\ scene'.player_dead
            ELSE scene'.player_health =
                     Min(SatAdd(scene.player_health - obs'.damage, obs'.collected_health),
                         scene.player_max_health)]_vars

\* the damage of the tick took the last health while the player was on a pickup that
\* heals and scores
C27_KilledOnPickup ==
    /\ obs.kind = "tick"
    /\ obs.damaged
    /\ obs.health_before > 0
    /\ obs.damage >= obs.health_before
    /\ obs.collected_health > 0
    /\ obs.collected_value > 0
    /\ scene.player_dead
    /\ scene.score > 0

\* particles of a jump fan emitted in the tick that led to the scene
FreshJumpParticles(s) ==
    {i \in 1..Len(s.particles) :
        s.particles[i].speed = JumpParticleSpeed /\ s.particles[i].age = 0}

\* C28: the player gets the jump impulse in a tick exactly when a jump key is newly
\* pressed in the frame and the player is on ground at that moment; the tick then starts
\* from velocity.y = -jump_strength, and without the impulse from the velocity the player
\* had; the jump sound is played and the jump particles are emitted only with an impulse
C28_JumpOnPressOnGround ==
    [][obs'.kind = "tick" =>
         LET was == FindPlayer(scene.entities).v
             now == FindPlayer(scene'.entities).v
             impulse == /\ JumpPressed(scene.input, obs'.kb)
                        /\ is_on_ground(was, scene'.platforms, scene.sprite_scale)
             start == IF impulse THEN -scene.jump_strength ELSE was.velocity.y IN
         /\ obs'.jump_sound <=> impulse
         /\ FreshJumpParticles(scene') # {} => impulse
         /\ impulse /\ scene.particles_enabled =>
               Cardinality(FreshJumpParticles(scene')) = scene.jump_particle_count
         /\ now.velocity.y \in {start + scene.gravity * obs'.dt, 0}
         /\ start + scene.gravity * obs'.dt <= 0 =>
               /\ now.velocity.y = start + scene.gravity * obs'.dt
               /\ now.position.y = was.position.y + now.velocity.y * obs'.dt]_vars

\* the jump key is pressed while the player still rises from an earlier jump: no impulse
C28_PressedInAir ==
    /\ obs.kind = "tick"
    /\ JumpPressed(scene.input, obs.kb)
    /\ ~obs.jump_sound
    /\ FindPlayer(scene.entities).v.velocity.y < 0
    /\ FreshJumpParticles(scene) = {}

\* C29: after every tick the player's x lies in [half_width, world_width - half_width],
\* half_width being half the scaled width of the player sprite, when the world is at
\* least as wide as the scaled sprite
C29_PlayerInsideWorld ==
    obs.kind = "tick" /\ FindPlayer(scene.entities).some =>
        LET player == FindPlayer(scene.entities).v
            half_width == HalfW(player, scene.sprite_scale) IN
        scene.world_width >= 2 * half_width =>
            /\ player.position.x >= half_width
            /\ player.position.x <= scene.world_width - half_width

\* the player ran into the left edge with the left key held and was stopped there
C29_StoppedAtLeftEdge ==
    /\ obs.kind = "tick"
    /\ PlayerDir(scene.input, obs.kb) = -1
    /\ obs.dt * scene.move_speed > WorldSize.x \div 4
    /\ FindPlayer(scene.entities).v.position.x =
           HalfW(FindPlayer(scene.entities).v, scene.sprite_scale)
    /\ FindPlayer(scene.entities).v.position.y > 0

\* the y below which the top edge of the player is not left
FallLimit(s) == s.world_height + s.fall_respawn_offset

\* C30: after every tick the top edge of the player is not below world_height +
\* fall_respawn_offset; a player whose fall of the tick ends below that line is at
\* (world_width / 2, 0) with zero velocity after the tick; an enemy below the line is
\* left to fall, and no other entity is put at the respawn point
C30_FallRespawn ==
    [][obs'.kind = "tick" =>
         LET was == FindPlayer(scene.entities).v
             now == FindPlayer(scene'.entities).v
             half_h == HalfH(was, scene.sprite_scale)
             impulse == /\ JumpPressed(scene.input, obs'.kb)
                        /\ is_on_ground(was, scene'.platforms, scene.sprite_scale)
             fall == (IF impulse THEN -scene.jump_strength ELSE was.velocity.y)
                     + scene.gravity * obs'.dt
             enemies == OfKind(scene.entities, "Enemy")
             later == OfKind(scene'.entities, "Enemy") IN
         /\ now.position.y - half_h <= FallLimit(scene)
         /\ was.position.y + fall * obs'.dt - half_h > FallLimit(scene) =>
               /\ now.position = Vec2(scene.world_width \div 2, 0)
               /\ now.velocity = Vec2Zero
         /\ \A k \in 1..Len(enemies) :
               enemies[k].position.y - HalfH(enemies[k], scene.sprite_scale)
                   > FallLimit(scene) /\ EnemyMode(scene) # "circle" =>
                   /\ later[k].position.y >= enemies[k].position.y
                   /\ later[k].position.y - HalfH(later[k], scene.sprite_scale)
                         > FallLimit(scene)]_vars

\* the player fell out of the world in the tick and is back at the top centre, while an
\* enemy that fell with it stays below the line
C30_PlayerBackEnemyGone ==
    /\ obs.kind = "tick"
    /\ obs.ticks >= 2
    /\ FindPlayer(scene.entities).v.position = Vec2(scene.world_width \div 2, 0)
    /\ FindPlayer(scene.entities).v.velocity = Vec2Zero
    /\ \E i \in 1..Len(scene.entities) :
          /\ scene.entities[i].kind = "Enemy"
          /\ scene.entities[i].position.y - HalfH(scene.entities[i], scene.sprite_scale)
                > FallLimit(scene)

-----------------------------------------------------------------------------
(* Properties of projectiles, pickups and timers over ticks (SpecSim)       *)

\* C31: after every tick every projectile of the scene, those spawned in the tick
\* included, is at a position within [-32, world_width + 32] x [-32, world_height + 32],
\* and a projectile that was in the scene before the tick has flown along its velocity
\* for dt and kept that velocity
C31_ProjectilesFlyStraight ==
    [][obs'.kind = "tick" =>
         \A j \in 1..Len(OfKind(scene'.entities, "Projectile")) :
            LET p == OfKind(scene'.entities, "Projectile")[j]
                before == OfKind(scene.entities, "Projectile") IN
            /\ p.position.x >= -CullMargin
            /\ p.position.x <= scene.world_width + CullMargin
            /\ p.position.y >= -CullMargin
            /\ p.position.y <= scene.world_height + CullMargin
            /\ \/ \E i \in 1..Len(before) :
                     /\ p.velocity = before[i].velocity
                     /\ p.position = Vec2(before[i].position.x + p.velocity.x * obs'.dt,
                                          before[i].position.y + p.velocity.y * obs'.dt)
                     /\ p.base_position = before[i].base_position
               \/ /\ obs'.spawned > 0
                  /\ p.position = p.base_position
                  /\ \E i \in 1..Len(scene'.entities) :
                        /\ scene'.entities[i].kind = "Enemy"
                        /\ scene'.entities[i].position = p.position]_vars

\* a projectile in its second tick of flight is past the left edge of the world, inside
\* the margin, next to one spawned in this tick
C31_InFlightPastEdge ==
    /\ obs.kind = "tick"
    /\ obs.spawned > 0
    /\ \E i \in 1..Len(scene.entities) :
          /\ scene.entities[i].kind = "Projectile"
          /\ scene.entities[i].position.x < 0
          /\ scene.entities[i].position # scene.entities[i].base_position

RECURSIVE Sum(_, _)
\* sum of field f over a sequence of entities
Sum(es, f) == IF es = <<>> THEN 0 ELSE es[1][f] + Sum(Tail(es), f)

\* the collectibles of the scene before the tick, where the tick puts them
Pickups == [i \in 1..Len(OfKind(scene.entities, "Collectible")) |->
               UpdateCollectible(OfKind(scene.entities, "Collectible")[i], scene').entity]

\* C32: in each tick of a scene with a player every collectible whose box overlaps the
\* player's box is removed and every other collectible is kept; the score grows by the sum
\* of the values removed, saturating, and never decreases; the health left after the
\* damage of the tick, when not 0, grows by the sum of the health values removed, capped
\* at player_max_health
C32_PickupsCollected ==
    [][obs'.kind = "tick" /\ FindPlayer(scene.entities).some =>
         LET box == BoxOfPlayer(scene'.entities, scene.sprite_scale)
             touched == SelectSeq(Pickups, LAMBDA e :
                            Overlaps(entity_rect(e, scene.sprite_scale), box))
             hurt == IF ~obs'.damaged THEN scene.player_health
                     ELSE Max(scene.player_health - obs'.damage, 0) IN
         /\ OfKind(scene'.entities, "Collectible") =
               SelectSeq(Pickups, LAMBDA e :
                   ~Overlaps(entity_rect(e, scene.sprite_scale), box))
         /\ scene'.score = Min(scene.score + Sum(touched, "value"), U32Max)
         /\ scene'.score >= scene.score
         /\ scene'.player_health =
               IF hurt > 0
               THEN Min(hurt + Sum(touched, "health_value"), scene.player_max_health)
               ELSE 0]_vars

\* two collectibles were touched in one tick by a player who had lost health: both are
\* gone, the score and the health went up
C32_TwoPickedUp ==
    /\ obs.kind = "tick"
    /\ Len(OfKind(scene.entities, "Collectible")) + 2 =
          Len(OfKind(AtGeneration.entities, "Collectible"))
    /\ obs.collected_value > 0
    /\ obs.collected_health > 0
    /\ scene.player_health > obs.health_before
    /\ scene.score = obs.collected_value

-----------------------------------------------------------------------------
(* Further properties of generation (SpecGen)                               *)

\* C33: when platform_min_gap_x > 0, every generated row, the ground row included, gets
\* at most max(1, floor(world_width / platform_min_gap_x)) platforms, whatever the
\* densities and the minimum and maximum of platforms per row
C33_RowWithinGapCap ==
    [][gen.pc \in {"platforms", "ground"} /\ rules.platform_min_gap_x > 0 =>
         Len(scene'.platforms) - Len(scene.platforms)
             <= Max(1, screen_size.x \div rules.platform_min_gap_x)]_vars

-----------------------------------------------------------------------------
(* Further properties of ticks (SpecSim)                                    *)

\* C34: a tick that spawns a projectile leaves enemy_shoot_timer at
\* enemy_shoot_interval; any other tick takes dt off the timer, not below 0; and two ticks
\* that spawn projectiles are at least enemy_shoot_interval of simulated time apart
C34_ShootCooldown ==
    [][obs'.kind = "tick" =>
         /\ scene'.enemy_shoot_timer >= 0
         /\ scene'.enemy_shoot_timer =
               IF obs'.spawned > 0 THEN scene.enemy_shoot_interval
               ELSE Max(scene.enemy_shoot_timer - obs'.dt, 0)
         /\ obs'.shot_gap >= 0 => obs'.shot_gap >= scene.enemy_shoot_interval]_vars

\* a volley was fired one interval after the volley before it, and the timer, which had
\* run down in between, is back at the interval
C34_FiredAgain ==
    /\ obs.kind = "tick"
    /\ obs.spawned > 0
    /\ obs.shot_gap = scene.enemy_shoot_interval
    /\ obs.ticks > 2
    /\ scene.enemy_shoot_timer = scene.enemy_shoot_interval

-----------------------------------------------------------------------------
(* Further properties of the main loop (SpecMain)                           *)

\* C35: Scene::update runs only in the Playing state and never on a scene whose
\* player_dead is set: the frame whose tick sets player_dead ends in GameOver, leaving
\* GameOver for Playing starts the generation of a new scene, and whenever a Playing frame
\* is about to run player_dead is false
C35_NoDeadSceneTicked ==
    [][/\ obs'.kind = "frame" => main.state = "Playing" /\ ~scene.player_dead
       /\ obs'.kind = "frame" /\ scene'.player_dead => main'.state = "GameOver"
       /\ main.state = "GameOver" /\ main'.state # "GameOver" =>
             main'.state = "Playing" /\ gen'.pc # "done"
       /\ main'.state = "Playing" /\ gen'.pc = "done" => ~scene'.player_dead]_vars

\* the run after a game over is about to play its first frame in its new scene
C35_PlayingAgain ==
    /\ main.state = "Playing"
    /\ main.event = "game_over_enter"
    /\ gen.pc = "done"
    /\ ~scene.player_dead

\* the frame's total_collected once the score gained in its tick is added
FrameTotal == SatAdd(main.total_collected, Max(scene'.score - scene.score, 0))

\* C36: with the rules of a run left alone, 1 <= level <= max_level in every frame;
\* the level changes by +1 in a frame whose total reaches collectibles_for_level_up below
\* max_level, which takes the threshold off the total and starts a new scene, or by the
\* reset to 1 of a new run; Won is entered only at max_level with the total at the threshold
C36_LevelWithinRun ==
    /\ [](1 <= level /\ level <= rules.max_level)
    /\ [][(level' # level =>
             \/ /\ level' = level + 1
                /\ obs'.kind = "frame"
                /\ FrameTotal >= rules.collectibles_for_level_up
                /\ level < rules.max_level
                /\ main'.total_collected = FrameTotal - rules.collectibles_for_level_up
                /\ gen'.pc # "done"
             \/ /\ level' = 1
                /\ main'.event \in {"play", "custom", "cartridge", "game_over_enter",
                                     "won_enter"})
           /\
           (main'.state = "Won" /\ main.state # "Won" =>
              /\ obs'.kind = "frame"
              /\ level >= rules.max_level
              /\ level' = level
              /\ main'.total_collected >= rules.collectibles_for_level_up)]_vars

\* the run has gone up to the last level and is won there
C36_WonAtMaxLevel ==
    /\ main.state = "Won"
    /\ main.event = "won"
    /\ level = rules.max_level
    /\ level > 1
    /\ main.total_collected >= rules.collectibles_for_level_up

-----------------------------------------------------------------------------
(* Further properties of spawn_collectibles (SpecGen)                       *)

NumCollectibles(sc) == Len(SelectSeq(sc.entities, LAMBDA e : e.kind = "Collectible"))

\* C37: every iteration of the cluster loop of spawn_collectibles takes at least
\* one off the remaining budget, which never goes below 0, and the loop ends exactly when
\* nothing remains; each iteration adds as many Collectible entities as it takes off the
\* budget, so a procedural scene holds as many Collectible entities as the computed total
\* when the loop has ended, in path mode and in scatter mode
C37_SpawnsTotalAndEnds ==
    /\ [](gen.pc \in {"cluster", "done"} /\ gen.total > 0 =>
             /\ NumCollectibles(scene) + gen.remaining = gen.total
             /\ gen.remaining >= 0
             /\ gen.pc = "done" <=> gen.remaining = 0)
    /\ [][obs'.kind = "cluster" =>
             /\ gen'.remaining < gen.remaining
             /\ gen'.total = gen.total
             /\ Len(scene'.entities) = Len(scene.entities) + gen.remaining - gen'.remaining
             /\ NumCollectibles(scene') =
                   NumCollectibles(scene) + gen.remaining - gen'.remaining]_vars

\* path mode has spawned a total that took more than one cluster
C37_PathSpawnedTotal ==
    /\ gen.pc = "done"
    /\ obs.kind = "cluster"
    /\ rules.collectibles_follow_path
    /\ gen.total > obs.size
    /\ obs.size > 1
    /\ \E i \in 1..Len(obs.ranges) : obs.ranges[i].name = "path_start"
    /\ NumCollectibles(scene) = gen.total

-----------------------------------------------------------------------------
(* Further properties of enemies and of the player over ticks (SpecSim)     *)

\* horizontal position and velocity of an enemy
Along(e) == [x |-> e.position.x, vx |-> e.velocity.x]

\* an enemy that moved by its velocity for dt, unclamped, and turned round if that left
\* its box past a world edge
Patrolled(e, s, dt) ==
    LET x == e.position.x + e.velocity.x * dt
        past == \/ x - HalfW(e, s.sprite_scale) < 0
                \/ x + HalfW(e, s.sprite_scale) > s.world_width IN
    [x |-> x, vx |-> IF past THEN -e.velocity.x ELSE e.velocity.x]

\* C38: in patrol mode and in an unrecognised mode every enemy left after a tick
\* has moved by its velocity times dt without being clamped, and has the horizontal
\* velocity it had before, negated if the tick ends with its box past the left or the right
\* edge of the world
C38_PatrolKeepsVelocity ==
    [][obs'.kind = "tick" /\ EnemyMode(scene) \notin {"chase", "circle"} =>
         LET was == OfKind(scene.entities, "Enemy")
             now == OfKind(scene'.entities, "Enemy") IN
         \E f \in [1..Len(now) -> 1..Len(was)] :
            /\ \A j, k \in 1..Len(now) : j < k => f[j] < f[k]
            /\ \A k \in 1..Len(now) : Along(now[k]) = Patrolled(was[f[k]], scene, obs'.dt)]_vars

\* in an unrecognised mode an enemy that kept its velocity for a tick or more has turned
\* round in the tick that took its box past the right edge, where it is left
C38_TurnedPastEdge ==
    LET es == OfKind(scene.entities, "Enemy") IN
    /\ obs.kind = "tick"
    /\ obs.ticks > 1
    /\ EnemyMode(scene) = "guard"
    /\ scene.enemy_speed > 0
    /\ \E k \in 1..Len(es) :
          /\ es[k].position.x + HalfW(es[k], scene.sprite_scale) > scene.world_width
          /\ es[k].position.x - es[k].base_position.x > scene.enemy_speed * obs.dt
          /\ es[k].velocity.x = -scene.enemy_speed

\* a key bound to moving left, or to moving right, is held
LeftHeld(s, kb) ==
    \/ is_key_down(kb, s.input.move_left_primary)
    \/ s.input.move_left_alt.some /\ is_key_down(kb, s.input.move_left_alt.v)

RightHeld(s, kb) ==
    \/ is_key_down(kb, s.input.move_right_primary)
    \/ s.input.move_right_alt.some /\ is_key_down(kb, s.input.move_right_alt.v)

\* velocity.x is what the held keys alone make it
FromKeys(vx, s, kb) ==
    /\ vx \in {-s.move_speed, 0, s.move_speed}
    /\ LeftHeld(s, kb) /\ ~RightHeld(s, kb) => vx = -s.move_speed
    /\ RightHeld(s, kb) /\ ~LeftHeld(s, kb) => vx = s.move_speed
    /\ LeftHeld(s, kb) = RightHeld(s, kb) => vx = 0

\* the fall of the tick takes the top edge of the player below the respawn line
FellOut(was, s, dt, kb) ==
    LET impulse == /\ JumpPressed(s.input, kb)
                   /\ is_on_ground(was, s.platforms, s.sprite_scale)
        fall == (IF impulse THEN -s.jump_strength ELSE was.velocity.y) + s.gravity * dt IN
    was.position.y + fall * dt - HalfH(was, s.sprite_scale) > FallLimit(s)

\* C39 as stated: after every tick the player's velocity.x is -move_speed with a left key
\* and no right key held, +move_speed with a right key and no left key held, and 0 with
\* neither or both held, whatever it was before the tick
C39_VelocityFromKeys ==
    [][obs'.kind = "tick" /\ FindPlayer(scene.entities).some =>
         FromKeys(FindPlayer(scene'.entities).v.velocity.x, scene, obs'.kb)]_vars

\* C39: after every tick that does not end with the fall respawn the player's
\* velocity.x is -move_speed with a left key and no right key held, +move_speed with a right
\* key and no left key held, and 0 with neither or both held, whatever it was before the
\* tick; after a tick that ends with the fall respawn it is 0 whatever keys are held
C39_VelocityFromKeysUnlessRespawned ==
    [][obs'.kind = "tick" /\ FindPlayer(scene.entities).some =>
         LET was == FindPlayer(scene.entities).v
             now == FindPlayer(scene'.entities).v IN
         IF FellOut(was, [scene EXCEPT !.platforms = scene'.platforms], obs'.dt, obs'.kb)
         THEN now.velocity.x = 0
         ELSE FromKeys(now.velocity.x, scene, obs'.kb)]_vars

\* the player, carried to the right of its start by an earlier tick, moves left with a
\* left key held
C39_TurnedLeft ==
    LET now == FindPlayer(scene.entities).v IN
    /\ obs.kind = "tick"
    /\ obs.ticks > 1
    /\ scene.move_speed > 0
    /\ LeftHeld(scene, obs.kb)
    /\ now.position.x > now.base_position.x
    /\ now.velocity.x = -scene.move_speed

=============================================================================
